---- MODULE Spec2Model ----
(***************************************************************************)
(* Model of the n8n workflow toolkit (scripts/activate_workflow.py and     *)
(* scripts/execute_workflow.py with scripts/webhook_utils.py).             *)
(*                                                                         *)
(* The remote engine is the environment: every HTTP request is one step   *)
(* whose response is chosen nondeterministically.  The code between two   *)
(* requests is part of the step that issues the later request.            *)
(***************************************************************************)
EXTENDS Integers, Sequences, FiniteSets, TLC

(***************************************************************************)
(* Bounds of the model.                                                    *)
(***************************************************************************)
MaxActCalls == 3

WorkflowIds == {"wf-42", "wf-7"}

\* How a request can end: a 2xx response, an HTTP error status (the
\* RequestException carries the response), or no response at all.
Responses == {"ok", "http_error", "conn_error"}

VARIABLES
    engineActive,   \* engine side: workflow id -> active flag
    apc,            \* WorkflowActivator: position in _set_workflow_active_state
    aId,            \* argument workflow_id
    aDesired,       \* argument active
    aReqs,          \* requests issued by the current call, in order
    aResps,         \* engine side: how each of these requests was answered
    aFetched,       \* local current_state: [read, state]
    aOutcome,       \* "none" | "returned" | "raised"
    aResult,        \* the returned dict (meaningful when aOutcome = "returned")
    aError,         \* the raised exception (meaningful when aOutcome = "raised")
    aPrev,          \* summary of the call completed just before the current one
    aCalls          \* number of calls started

actVars == <<engineActive, apc, aId, aDesired, aReqs, aResps, aFetched,
             aOutcome, aResult, aError, aPrev, aCalls>>

VARIABLES
    xpc,            \* WorkflowExecutor: position in execute_workflow
    xMethod,        \* argument method
    xDebug,         \* argument debug
    xAutoAct,       \* argument auto_activate
    xTestMode,      \* argument test_mode
    metadata,       \* workspace metadata.json
    xTimestamp,     \* local timestamp of the call
    clock,          \* wall clock, in seconds
    xStart,         \* start_time of the running attempt
    xEvents,        \* requests and processes issued by the call (polls counted apart)
    xAttempts,      \* execution methods attempted, in order
    xFailed,        \* attempts that ended by raising, in order
    whUrl,          \* webhook_url / use_test_mode inside execute_via_webhook
    polls,          \* poll requests issued
    sleeps,         \* time.sleep(poll_interval) calls made
    pollStatus,     \* return value of poll_execution_status
    firstFinishedAt,\* engine side: first poll answered finished (no error shape)
    firstErrorAt,   \* engine side: first poll answered stoppedAt and error
    firstRaiseAt,   \* engine side: first poll request that failed
    xResult,        \* execution_result
    xOutcome,       \* "none" | "returned" | "raised"
    xRaised,        \* the exception that left execute_workflow
    errLog,         \* logs/errors_<ts>.log, entries by origin
    xContext,       \* context/execution_<ts>.json
    xPreRead,       \* what check_workflow_active returned, and from what
    whAnswer,       \* engine side: what the webhook trigger request met
    whReported,     \* what the registration check reported, "none" before
    exitCode        \* return value of main, -1 while the command runs

execVars == <<xpc, xMethod, xDebug, xAutoAct, xTestMode, metadata,
              xTimestamp, clock, xStart, xEvents, xAttempts, xFailed, whUrl,
              polls, sleeps, pollStatus, firstFinishedAt, firstErrorAt,
              firstRaiseAt, xResult, xOutcome, xRaised, errLog, xContext,
              xPreRead, whAnswer, whReported, exitCode>>

VARIABLES
    bpc,            \* batch_activate: "idle" | "loop" | "item" | "done"
    bIds,           \* argument workflow_ids
    bActivate,      \* argument activate
    bIdx,           \* position of the for loop in workflow_ids (1-based)
    bResults,       \* local results
    bRaised,        \* positions whose single-workflow operation raised
    bSummary        \* the three counts of the printed summary

batchVars == <<bpc, bIds, bActivate, bIdx, bResults, bRaised, bSummary>>

VARIABLES
    wfForm,         \* the workflow definition handed in: "dict" | "str" (JSON text)
    wfNodes,        \* its 'nodes' list
    epc,            \* extract_webhook_urls: "idle" | "done"
    exBy,           \* which extractor ran: "none" | "manager" | "importer"
    exOutcome,      \* "none" | "returned" | "raised"
    exError,        \* the exception that left the extractor
    exWebhooks,     \* the returned list
    exStored        \* the webhook_config the caller stored in metadata.json

extractVars == <<wfForm, wfNodes, epc, exBy, exOutcome, exError, exWebhooks,
    exStored>>

VARIABLES
    vpc,            \* verify_webhook_registration: "idle" | "done"
    vrProbe,        \* engine side: what the two probes meet
    vrMethod,       \* argument method
    vrEvents,       \* requests issued by the call
    vrResult        \* the returned dict

verifyVars == <<vpc, vrProbe, vrMethod, vrEvents, vrResult>>

VARIABLES
    cfgArg,         \* argument config_path: "none" | "existing" | "missing"
    cfgParent,      \* whether config.json exists next to the scripts directory
    cfgFile,        \* n8n_api section of the config file that would be read
    envUrl,         \* environment variable N8N_API_URL, "unset" when not set
    envKey,         \* environment variable N8N_API_KEY, "unset" when not set
    cpc,            \* constructor: "idle" | "done"
    cfgBy,          \* which class was constructed
    cfgResolved     \* base URL and API key the object sends its requests with

configVars == <<cfgArg, cfgParent, cfgFile, envUrl, envKey,
    cpc, cfgBy, cfgResolved>>

VARIABLES
    mdDisk,         \* metadata.json on disk: [state, doc], doc being the JSON text
    mdInitial,      \* metadata.json as it was before any updater ran
    mdLogs,         \* number of *.log files in logs/
    uKind,          \* per invocation: which updater it runs, "none" when it never runs
    uPc,            \* per invocation: "idle" | "loaded" | "opened" | "done" | "raised"
    uArg,           \* per invocation: the execution result / the payload it writes
    uRead,          \* per invocation: the file as it was when the invocation read it
    uView,          \* per invocation: local dict metadata
    uOverlap,       \* per invocation: another one had the file open for writing meanwhile
    mdWrites,       \* invocations in the order their json.dump completed
    rpc,            \* the reader: "idle" | "done"
    mdLoaded        \* what json.load of the final file gave the reader

metaVars == <<mdDisk, mdInitial, mdLogs, uKind, uPc,
    uArg, uRead, uView, uOverlap, mdWrites,
    rpc, mdLoaded>>

VARIABLES
    cPc,            \* execute_via_cli: "idle" | "reading" | "waiting" | "stderr" | "returned" | "raised"
    cDebug,         \* the debug argument
    cChild,         \* the n8n process: "none" | "running" | "errWrite" | "blocked" | "exited"
    cOut,           \* the child's standard output: "none" | "open" | "eof"
    cPipe,          \* lines written by the child and not yet read
    cWritten,       \* lines the child wrote so far
    cLogged,        \* lines copied into the execution log
    cErr,           \* chunks in the standard error pipe, written and not yet read
    cErrWritten,    \* chunks the child wrote to its standard error so far
    cErrLogged,     \* chunks copied into the error log
    cRc,            \* the child's exit code, -1 while it has none
    cResult         \* what execute_via_cli returned

cliVars == <<cPc, cDebug, cChild, cOut, cPipe,
    cWritten, cLogged, cErr, cErrWritten, cErrLogged, cRc, cResult>>

VARIABLES
    wsExists,       \* the workspace directory exists
    wsWorkflow,     \* the definition in workflow.json, "none" without the file
    wsVersions,     \* versions/: backup timestamp -> the definition saved under it
    wsTick,         \* the wall clock, in half seconds
    wsReplaced,     \* definitions that setup_workspace replaced so far
    wsCalls,        \* setup_workspace calls so far
    wsBackedUp,     \* the last call made a backup
    wsWasNew,       \* the last call found no workspace
    wsVersionCount, \* version_count in metadata.json, -1 when unset
    wsOutcome       \* the last call: "none" | "returned" | "raised"

wsVars == <<wsExists, wsWorkflow, wsVersions, wsTick, wsReplaced,
    wsCalls, wsBackedUp, wsWasNew, wsVersionCount, wsOutcome>>

VARIABLES
    pdAnswer,       \* what the poll request met
    pdIndex,        \* the loop variable i
    pdDebug,        \* the debug argument
    pdPc,           \* the iteration: "request" | "decided"
    pdDecision,     \* "none", or what the iteration did: a returned status or "continue"
    pdLogged        \* the iteration wrote the periodic debug line

pdVars == <<pdAnswer, pdIndex, pdDebug, pdPc, pdDecision, pdLogged>>

VARIABLES
    iPc,            \* import_workflow: "idle" | "request" | "activate" | "finish" | "done"
    iFile,          \* workflow.json of the workspace: exists, keys, id, hasWebhooks
    iExtract,       \* the extract_webhook argument
    iActivate,      \* the activate argument
    iData,          \* workflow_data after the read-only fields are removed
    iWorkflowId,    \* local workflow_id, "none" for None
    iEvents,        \* requests issued to the engine
    iEngine,        \* ids of the workflows on the engine
    iMetaId,        \* workflow_id in metadata.json, "none" when unset
    iWebhooksSaved, \* save_webhook_info was called
    iLog,           \* the import log written: "none" | "success" | "failed"
    iOutcome,       \* "none" | "returned" | "raised"
    iReturned,      \* the returned workflow id
    iAnswer,        \* engine side: how the import request was answered
    iActivation     \* engine side: how the activation went, "none" before

impVars == <<iPc, iFile, iExtract, iActivate, iData,
    iWorkflowId, iEvents, iEngine, iMetaId, iWebhooksSaved,
    iLog, iOutcome, iReturned, iAnswer, iActivation>>

VARIABLES
    ovDone,         \* main stored the --webhook-url override in metadata.json
    ovBefore        \* webhook_config.webhooks of metadata.json before the command ran

mainVars == <<ovDone, ovBefore>>

VARIABLES
    dPc,            \* debug_cycle: "idle" | "setup" | "loop" | "run" | "prompt" | "cleanup" | "done" | "raised"
    dAutoFix,       \* the auto_fix argument
    dMax,           \* the max_iterations argument
    dIteration,     \* local iteration
    dRuns,          \* results of the run_workflow calls, in order
    dLogs,          \* number of *.log files in logs/
    dCleanups       \* cleanup_old_logs calls so far

dbgVars == <<dPc, dAutoFix, dMax, dIteration, dRuns, dLogs, dCleanups>>

nonActVars ==
    <<execVars, batchVars, extractVars, verifyVars,
      configVars, metaVars, cliVars, wsVars,
      pdVars, impVars, mainVars, dbgVars>>

nonExecVars ==
    <<actVars, batchVars, extractVars, verifyVars,
      configVars, metaVars, cliVars, wsVars,
      pdVars, impVars, mainVars, dbgVars>>

nonBatchVars ==
    <<execVars, extractVars, verifyVars, configVars,
      metaVars, cliVars, wsVars, pdVars,
      impVars, mainVars, dbgVars>>

nonExtractVars ==
    <<actVars, execVars, batchVars, verifyVars,
      configVars, metaVars, cliVars, wsVars,
      pdVars, impVars, mainVars, dbgVars>>

nonVerifyVars ==
    <<actVars, execVars, batchVars, extractVars,
      configVars, metaVars, cliVars, wsVars,
      pdVars, impVars, mainVars, dbgVars>>

nonConfigVars ==
    <<actVars, execVars, batchVars, extractVars,
      verifyVars, metaVars, cliVars, wsVars,
      pdVars, impVars, mainVars, dbgVars>>

nonMetaVars ==
    <<actVars, execVars, batchVars, extractVars,
      verifyVars, configVars, cliVars, wsVars,
      pdVars, impVars, mainVars, dbgVars>>

nonCliVars ==
    <<actVars, execVars, batchVars, extractVars,
      verifyVars, configVars, metaVars, wsVars,
      pdVars, impVars, mainVars, dbgVars>>

nonWsVars ==
    <<actVars, execVars, batchVars, extractVars,
      verifyVars, configVars, metaVars, cliVars,
      pdVars, impVars, mainVars, dbgVars>>

nonPdVars ==
    <<actVars, execVars, batchVars, extractVars,
      verifyVars, configVars, metaVars, cliVars,
      wsVars, impVars, mainVars, dbgVars>>

nonImpVars ==
    <<actVars, execVars, batchVars, extractVars,
      verifyVars, configVars, metaVars, cliVars,
      wsVars, pdVars, mainVars, dbgVars>>

nonMainVars ==
    <<actVars, execVars, batchVars, extractVars,
      verifyVars, configVars, metaVars, cliVars,
      wsVars, pdVars, impVars, dbgVars>>

nonDbgVars ==
    <<actVars, execVars, batchVars, extractVars,
      verifyVars, configVars, metaVars, cliVars,
      wsVars, pdVars, impVars, mainVars>>

vars ==
    <<actVars, execVars, batchVars, extractVars,
      verifyVars, configVars, metaVars, cliVars,
      wsVars, pdVars, impVars, mainVars,
      dbgVars>>

(***************************************************************************)
(* WorkflowActivator (scripts/activate_workflow.py)                        *)
(***************************************************************************)

\* workflow_data.get('name', 'Unknown') of the engine's representation
EngineName(id) == IF id = "wf-42" THEN "Order sync" ELSE "Unknown"

Req(verb, path, id) == [verb |-> verb, path |-> path, id |-> id]

NoResult == [id |-> "", name |-> "", active |-> FALSE, changed |-> FALSE]

NoError == [kind |-> "none", step |-> "none", observed |-> FALSE,
            hasBody |-> FALSE]

NoPrev == [id |-> "", desired |-> FALSE, outcome |-> "none",
           changed |-> FALSE, reqs |-> <<>>]

\* line 67: if current_state == active
AlreadyInState_NeverEqual(current, desired) == FALSE

AlreadyInState(current, desired) == current = desired

\* lines 78-83: the dedicated endpoint for the requested state
ActionPath_AlwaysActivate(desired) == "activate"

ActionPath(desired) == IF desired THEN "activate" ELSE "deactivate"

\* lines 97-111: outcome of the verification; <<outcome, result, error>>
VerifyOutcome_TrustPost(id, name, newState, desired) ==
    <<"returned",
      [id |-> id, name |-> name, active |-> newState, changed |-> TRUE],
      NoError>>

VerifyOutcome(id, name, newState, desired) ==
    IF newState = desired
    THEN <<"returned",
           [id |-> id, name |-> name, active |-> newState, changed |-> TRUE],
           NoError>>
    ELSE <<"raised", NoResult,
           [kind |-> "state_mismatch", step |-> "verify",
            observed |-> newState, hasBody |-> FALSE]>>

\* lines 113-123: a RequestException becomes Exception("Failed to ...: msg"),
\* with the response body appended when the exception carries a response
TransportError_NoBody(step, resp) ==
    [kind |-> "transport", step |-> step, observed |-> FALSE,
     hasBody |-> FALSE]

TransportError(step, resp) ==
    [kind |-> "transport", step |-> step, observed |-> FALSE,
     hasBody |-> (resp = "http_error")]

\* lines 37-43: activate_workflow / deactivate_workflow enter
\* _set_workflow_active_state
ActEnter(id, desired) ==
    /\ apc \in {"idle", "done"}
    /\ aPrev' = IF apc = "done"
                THEN [id |-> aId, desired |-> aDesired, outcome |-> aOutcome,
                      changed |-> aResult.changed, reqs |-> aReqs]
                ELSE aPrev
    /\ aId' = id
    /\ aDesired' = desired
    /\ aReqs' = <<>>
    /\ aResps' = <<>>
    /\ aFetched' = [read |-> FALSE, state |-> FALSE]
    /\ aOutcome' = "none"
    /\ aResult' = NoResult
    /\ aError' = NoError
    /\ aCalls' = aCalls + 1
    /\ apc' = "fetch"
    /\ UNCHANGED engineActive

\* a call of activate_workflow / deactivate_workflow from the command line
ActCall(id, desired) ==
    /\ aCalls < MaxActCalls
    /\ ActEnter(id, desired)
    /\ UNCHANGED nonActVars

\* lines 56-75: GET the workflow, return at once when nothing is to change
ActFetch(resp) ==
    /\ apc = "fetch"
    /\ aReqs' = Append(aReqs, Req("GET", "workflow", aId))
    /\ aResps' = Append(aResps, resp)
    /\ aFetched' = IF resp = "ok"
                   THEN [read |-> TRUE, state |-> engineActive[aId]]
                   ELSE aFetched
    /\ IF resp # "ok"
       THEN /\ aOutcome' = "raised"
            /\ aError' = TransportError("fetch", resp)
            /\ aResult' = NoResult
            /\ apc' = "done"
       ELSE IF AlreadyInState(engineActive[aId], aDesired)
            THEN /\ aOutcome' = "returned"
                 /\ aResult' = [id |-> aId, name |-> EngineName(aId),
                                active |-> engineActive[aId],
                                changed |-> FALSE]
                 /\ aError' = NoError
                 /\ apc' = "done"
            ELSE /\ apc' = "post"
                 /\ UNCHANGED <<aOutcome, aResult, aError>>
    /\ UNCHANGED <<engineActive, aId, aDesired, aPrev, aCalls>>
    /\ UNCHANGED nonActVars

\* lines 77-89: POST to the activate/deactivate endpoint.  The engine either
\* applies the action or leaves the flag as it was; a failed request may
\* still have been applied.
ActPost(resp, applied) ==
    /\ apc = "post"
    /\ aReqs' = Append(aReqs, Req("POST", ActionPath(aDesired), aId))
    /\ aResps' = Append(aResps, resp)
    /\ engineActive' =
         IF applied
         THEN [engineActive EXCEPT ![aId] = (ActionPath(aDesired) = "activate")]
         ELSE engineActive
    /\ IF resp # "ok"
       THEN /\ aOutcome' = "raised"
            /\ aError' = TransportError("post", resp)
            /\ apc' = "done"
       ELSE /\ apc' = "verify"
            /\ UNCHANGED <<aOutcome, aError>>
    /\ UNCHANGED <<aId, aDesired, aFetched, aResult, aPrev, aCalls>>
    /\ UNCHANGED nonActVars

\* lines 91-111: GET again and compare with the desired state
ActVerify(resp) ==
    /\ apc = "verify"
    /\ aReqs' = Append(aReqs, Req("GET", "workflow", aId))
    /\ aResps' = Append(aResps, resp)
    /\ IF resp # "ok"
       THEN /\ aOutcome' = "raised"
            /\ aError' = TransportError("verify", resp)
            /\ aResult' = NoResult
       ELSE LET v == VerifyOutcome(aId, EngineName(aId), engineActive[aId],
                                   aDesired)
            IN  /\ aOutcome' = v[1]
                /\ aResult' = v[2]
                /\ aError' = v[3]
    /\ apc' = "done"
    /\ UNCHANGED <<engineActive, aId, aDesired, aFetched, aPrev, aCalls>>
    /\ UNCHANGED nonActVars

ActInit ==
    /\ engineActive \in [WorkflowIds -> BOOLEAN]
    /\ apc = "idle"
    /\ aId = ""
    /\ aDesired = FALSE
    /\ aReqs = <<>>
    /\ aResps = <<>>
    /\ aFetched = [read |-> FALSE, state |-> FALSE]
    /\ aOutcome = "none"
    /\ aResult = NoResult
    /\ aError = NoError
    /\ aPrev = NoPrev
    /\ aCalls = 0

(***************************************************************************)
(* WorkflowActivator.batch_activate (scripts/activate_workflow.py)         *)
(***************************************************************************)

\* longest workflow_ids list explored
MaxBatch == 3

RECURSIVE SeqsUpTo(_, _)
SeqsUpTo(S, n) ==
    IF n = 0 THEN {<<>>}
    ELSE LET shorter == SeqsUpTo(S, n - 1)
         IN  shorter \cup {Append(q, x) : q \in shorter, x \in S}

BatchInputs == SeqsUpTo(WorkflowIds, MaxBatch)

\* lines 197-208: what the loop body appends for one identifier: the dict
\* the operation returned, or {'id', 'error'} when it raised
BatchAppend_DropFailed(results, id, outcome, result, error) ==
    IF outcome = "returned"
    THEN Append(results,
                [keys |-> {"id", "name", "active", "changed"},
                 id |-> result.id, name |-> result.name,
                 active |-> result.active, changed |-> result.changed,
                 error |-> NoError])
    ELSE results

BatchAppend(results, id, outcome, result, error) ==
    IF outcome = "returned"
    THEN Append(results,
                [keys |-> {"id", "name", "active", "changed"},
                 id |-> result.id, name |-> result.name,
                 active |-> result.active, changed |-> result.changed,
                 error |-> NoError])
    ELSE Append(results,
                [keys |-> {"id", "error"},
                 id |-> id, name |-> "", active |-> FALSE, changed |-> FALSE,
                 error |-> error])

\* lines 210-213: the three lists of the summary, by length
BatchSummary(results) ==
    [successful |->
        Cardinality({i \in DOMAIN results :
                       "changed" \in results[i].keys /\ results[i].changed}),
     already_done |->
        Cardinality({i \in DOMAIN results :
                       "changed" \in results[i].keys /\ ~results[i].changed}),
     failed |->
        Cardinality({i \in DOMAIN results : "error" \in results[i].keys})]

NoSummary == [successful |-> 0, already_done |-> 0, failed |-> 0]

\* lines 190-193: entry
BatchCall(ids, activate) ==
    /\ bpc = "idle"
    /\ apc = "idle"
    /\ bpc' = "loop"
    /\ bIds' = ids
    /\ bActivate' = activate
    /\ bIdx' = 1
    /\ bResults' = <<>>
    /\ bRaised' = {}
    /\ UNCHANGED bSummary
    /\ UNCHANGED actVars
    /\ UNCHANGED nonBatchVars

\* lines 195-200: the loop enters the single-workflow operation for the
\* next identifier
BatchItem ==
    /\ bpc = "loop"
    /\ bIdx <= Len(bIds)
    /\ ActEnter(bIds[bIdx], bActivate)
    /\ bpc' = "item"
    /\ UNCHANGED <<bIds, bActivate, bIdx, bResults, bRaised, bSummary>>
    /\ UNCHANGED nonBatchVars

\* lines 201-208: the operation returned or raised; one record is appended
\* either way and the loop goes on
BatchCollect ==
    /\ bpc = "item"
    /\ apc = "done"
    /\ bResults' = BatchAppend(bResults, bIds[bIdx], aOutcome, aResult, aError)
    /\ bRaised' = IF aOutcome = "raised" THEN bRaised \cup {bIdx} ELSE bRaised
    /\ bIdx' = bIdx + 1
    /\ bpc' = "loop"
    /\ UNCHANGED <<bIds, bActivate, bSummary>>
    /\ UNCHANGED actVars
    /\ UNCHANGED nonBatchVars

\* lines 210-220: the summary is printed and results returned
BatchReturn ==
    /\ bpc = "loop"
    /\ bIdx > Len(bIds)
    /\ bSummary' = BatchSummary(bResults)
    /\ bpc' = "done"
    /\ UNCHANGED <<bIds, bActivate, bIdx, bResults, bRaised>>
    /\ UNCHANGED actVars
    /\ UNCHANGED nonBatchVars

BatchInit ==
    /\ bpc = "idle"
    /\ bIds = <<>>
    /\ bActivate = TRUE
    /\ bIdx = 1
    /\ bResults = <<>>
    /\ bRaised = {}
    /\ bSummary = NoSummary

(***************************************************************************)
(* WorkflowExecutor (scripts/execute_workflow.py)                          *)
(***************************************************************************)

Methods == {"auto", "api", "cli", "webhook"}

\* max_polls of poll_execution_status
MaxPolls == 60

\* poll_interval of poll_execution_status, in seconds
PollInterval == 1

\* config['debug']['capture_env'] of the default configuration
CaptureEnv == TRUE

\* A URL is the sequence of its parts between slashes, the scheme and host
\* being the first part.
BaseUrl == "http://localhost:5678"

NoUrl == <<>>

ProductionUrl(p) == <<BaseUrl, "webhook", p>>

TestUrl(p) == <<BaseUrl, "webhook-test", p>>

\* '/seg/' in url
HasSegment(url, seg) == \E i \in 2..(Len(url) - 1) : url[i] = seg

\* url.replace('/webhook/', '/webhook-test/'): every occurrence, left to
\* right; an occurrence uses up both of its slashes
RECURSIVE ReplaceFrom(_, _, _)
ReplaceFrom(url, i, slashUsed) ==
    IF i > Len(url) THEN <<>>
    ELSE IF i >= 2 /\ i < Len(url) /\ url[i] = "webhook" /\ ~slashUsed
         THEN <<"webhook-test">> \o ReplaceFrom(url, i + 1, TRUE)
         ELSE <<url[i]>> \o ReplaceFrom(url, i + 1, FALSE)

ToTestUrl_Unchanged(url) == url

ToTestUrl(url) == ReplaceFrom(url, 1, FALSE)

Ev(op) == [op |-> op, url |-> NoUrl]

EvUrl(op, url) == [op |-> op, url |-> url]

NoXResult ==
    [present |-> FALSE, keys |-> {}, execution_id |-> "absent",
     status |-> "absent", duration |-> 0, execution_method |-> "absent",
     webhook_url |-> NoUrl, response_status |-> 0, return_code |-> 0,
     error |-> <<>>]

NoRaise == [kind |-> "none", from |-> "none"]

\* an attempt that ended by raising, and what made it raise
Failure(method, cause) == [method |-> method, cause |-> cause]

NoLastExecution ==
    [timestamp |-> -1, status |-> "absent", duration |-> 0, log_file |-> -1]

\* a record left by an earlier execution
PriorLastExecution ==
    [timestamp |-> -1, status |-> "success", duration |-> 2, log_file |-> -1]

NoWebhook == [production_url |-> NoUrl, test_url |-> NoUrl]

\* metadata['webhook_config']['webhooks'] as import or --webhook-url left it
WebhookLists ==
    { <<>>,
      <<[production_url |-> ProductionUrl("orders"),
         test_url |-> TestUrl("orders")]>>,
      <<NoWebhook,
        [production_url |-> ProductionUrl("orders"),
         test_url |-> TestUrl("orders")]>>,
      <<[production_url |-> <<BaseUrl, "hooks", "direct">>,
         test_url |-> NoUrl]>>,
      <<[production_url |-> NoUrl, test_url |-> TestUrl("orders")]>> }

\* metadata.json of the workspace: missing, as an import left it, or as an
\* earlier execution left it
Workspaces ==
    [exists : {TRUE}, webhooks : WebhookLists,
     last_execution : {NoLastExecution}]
    \cup
    [exists : {TRUE},
     webhooks : {<<[production_url |-> ProductionUrl("orders"),
                    test_url |-> TestUrl("orders")]>>},
     last_execution : {PriorLastExecution}]
    \cup
    [exists : {FALSE}, webhooks : {<<>>}, last_execution : {NoLastExecution}]

\* lines 137-151: the URL of the first webhook of the metadata, if any
FirstWebhookUrl(md) ==
    IF md.exists /\ Len(md.webhooks) > 0
    THEN IF md.webhooks[1].production_url # NoUrl
         THEN md.webhooks[1].production_url
         ELSE md.webhooks[1].test_url
    ELSE NoUrl

\* lines 543-559: save_execution_data writes the result, with the environment
\* added to the dict itself
SaveExecutionData(result) ==
    IF CaptureEnv
    THEN [result EXCEPT !.keys = @ \cup {"environment"}]
    ELSE result

\* lines 571-576: the last_execution entry written for a result dict
LastExecutionOf(ts, result) ==
    [timestamp |-> ts,
     status |-> IF "status" \in result.keys THEN result.status ELSE "unknown",
     duration |-> IF "duration" \in result.keys THEN result.duration ELSE 0,
     log_file |-> ts]

\* lines 561-579
UpdateExecutionMetadata(md, ts, result) ==
    [md EXCEPT !.exists = TRUE, !.last_execution = LastExecutionOf(ts, result)]

\* a None result handed back to the caller as it is
Recorded_ReturnsNone(result) ==
    [outcome |-> "returned", raised |-> NoRaise,
     result |-> result, context |-> xContext, metadata |-> metadata]

\* lines 166-171 and 209-216: what execute_workflow does with the result of
\* the attempts; a None result has no .get and update_execution_metadata
\* raises AttributeError before it writes
Recorded(result) ==
    IF result.present
    THEN [outcome |-> "returned", raised |-> NoRaise,
          result |-> SaveExecutionData(result),
          context |-> SaveExecutionData(result),
          metadata |-> UpdateExecutionMetadata(metadata, xTimestamp, result)]
    ELSE [outcome |-> "raised",
          raised |-> [kind |-> "AttributeError", from |-> "record"],
          result |-> result, context |-> xContext, metadata |-> metadata]

\* execute_workflow ends: with the recorded result, or with the exception
Finish(rec) ==
    /\ xpc' = "done"
    /\ xOutcome' = rec.outcome
    /\ xRaised' = rec.raised
    /\ xResult' = rec.result
    /\ xContext' = rec.context
    /\ metadata' = rec.metadata

FinishRaise(kind, from) ==
    /\ xpc' = "done"
    /\ xOutcome' = "raised"
    /\ xRaised' = [kind |-> kind, from |-> from]
    /\ UNCHANGED <<xResult, xContext, metadata>>

\* lines 180 and 192: which attempt follows
ApiFollowsWebhook(method) == method # "webhook"

CliFollowsApi_Never(method) == FALSE

CliFollowsApi(method) == method # "api"

\* line 114: if auto_activate and method != 'webhook'
PreActivates_AnyMethod(autoActivate, method) == autoActivate

PreActivates(autoActivate, method) == autoActivate /\ method # "webhook"

\* lines 56-61: what check_workflow_active returns, True for active; any
\* exception returns False
CheckWorkflowActive(resp, active) == resp = "ok" /\ active

\* the URLs given with --webhook-url
DirectUrls == {ProductionUrl("orders"), <<BaseUrl, "hooks", "direct">>}

\* lines 601-621 of main: with --webhook-url the method becomes webhook and
\* the URL is written into metadata.json as the only webhook
MainOverride(url) ==
    /\ xpc = "idle"
    /\ ~ovDone
    /\ ovDone' = TRUE
    /\ ovBefore' = metadata.webhooks
    /\ metadata' = [metadata EXCEPT
                       !.exists = TRUE,
                       !.webhooks = <<[production_url |-> url,
                                       test_url |-> NoUrl]>>]
    /\ UNCHANGED <<xpc, xMethod, xAutoAct, xTestMode, xTimestamp>>
    /\ UNCHANGED <<xDebug, clock, xStart, xEvents, xAttempts,
                   xFailed, whUrl, polls, sleeps, pollStatus, firstFinishedAt,
                   firstErrorAt, firstRaiseAt, xResult, xOutcome, xRaised,
                   errLog, xContext>>
    /\ UNCHANGED <<xPreRead, whAnswer, whReported, exitCode>>
    /\ UNCHANGED <<actVars, batchVars, extractVars, verifyVars, configVars,
                   metaVars, cliVars, wsVars, pdVars, impVars, dbgVars>>

\* lines 108-121: execute_workflow is entered
\* debug is read by the CLI attempt alone (the other attempts only log
\* more with it), so its value is drawn there
ExecCall(method, autoActivate, testMode) ==
    /\ xpc = "idle"
    /\ ovDone => method = "webhook"
    /\ xMethod' = method
    /\ xAutoAct' = autoActivate
    /\ xTestMode' = testMode
    /\ xTimestamp' = clock
    /\ xpc' = IF PreActivates(autoActivate, method) THEN "preCheck"
              ELSE "select"
    /\ UNCHANGED <<xDebug, metadata, clock, xStart, xEvents, xAttempts,
                   xFailed, whUrl, polls, sleeps, pollStatus, firstFinishedAt,
                   firstErrorAt, firstRaiseAt, xResult, xOutcome, xRaised,
                   errLog, xContext>>
    /\ UNCHANGED <<xPreRead, whAnswer, whReported, exitCode>>
    /\ UNCHANGED nonExecVars

preFrame == <<xMethod, xDebug, xAutoAct, xTestMode, metadata, xTimestamp,
              clock, xStart, xAttempts, xFailed, whUrl, polls, sleeps,
              pollStatus, firstFinishedAt, firstErrorAt, firstRaiseAt,
              xResult, xOutcome, xRaised, errLog, xContext>>

\* The engine's active flag of the executed workflow is not kept in the
\* model: the engine owns it and others may change it between two requests,
\* so every response reports a flag of its own.

\* lines 44-61 and 116: check_workflow_active; a failure reads as inactive
PreCheck(resp, active) ==
    /\ xpc = "preCheck"
    /\ xEvents' = Append(xEvents, Ev("GET workflow"))
    /\ xPreRead' = IF resp # "ok" THEN "unreadable"
                   ELSE IF active THEN "active" ELSE "inactive"
    /\ xpc' = IF CheckWorkflowActive(resp, active) THEN "select" ELSE "preGet"
    /\ UNCHANGED preFrame
    /\ UNCHANGED <<whAnswer, whReported, exitCode>>
    /\ UNCHANGED nonExecVars

\* lines 63-82: activate_workflow, the state check
PreGet(resp, active) ==
    /\ xpc = "preGet"
    /\ xEvents' = Append(xEvents, Ev("GET workflow"))
    /\ xpc' = IF resp = "ok" /\ ~active THEN "prePost" ELSE "select"
    /\ UNCHANGED preFrame
    /\ UNCHANGED <<xPreRead, whAnswer, whReported, exitCode>>
    /\ UNCHANGED nonExecVars

\* lines 84-90: activate_workflow, the action
PrePost(resp) ==
    /\ xpc = "prePost"
    /\ xEvents' = Append(xEvents, Ev("POST activate"))
    /\ xpc' = IF resp = "ok" THEN "preVerify" ELSE "select"
    /\ UNCHANGED preFrame
    /\ UNCHANGED <<xPreRead, whAnswer, whReported, exitCode>>
    /\ UNCHANGED nonExecVars

\* lines 92-106: activate_workflow, the verification; its result is only
\* printed by execute_workflow
PreVerify(resp, active) ==
    /\ xpc = "preVerify"
    /\ xEvents' = Append(xEvents, Ev("GET workflow"))
    /\ xpc' = "select"
    /\ UNCHANGED preFrame
    /\ UNCHANGED <<xPreRead, whAnswer, whReported, exitCode>>
    /\ UNCHANGED nonExecVars

\* lines 123-180: the log files are named and the first attempt is chosen.
\* execute_via_webhook starts by rewriting the URL in test mode (lines
\* 309-312) and opening both log files for writing (line 314).
SelectAttempt ==
    /\ xpc = "select"
    /\ LET url == IF xMethod \in {"webhook", "auto"}
                  THEN FirstWebhookUrl(metadata) ELSE NoUrl
       IN  IF url # NoUrl
           THEN /\ xpc' = "whVerify"
                /\ xAttempts' = Append(xAttempts, "webhook")
                /\ whUrl' = [url |-> IF xTestMode /\ HasSegment(url, "webhook")
                                        /\ ~HasSegment(url, "webhook-test")
                                     THEN ToTestUrl(url) ELSE url,
                             test |-> xTestMode]
                /\ xStart' = clock
                /\ errLog' = <<>>
                /\ UNCHANGED <<xOutcome, xRaised, xResult, xContext, metadata>>
           ELSE IF ApiFollowsWebhook(xMethod)
                THEN /\ xpc' = "apiPost"
                     /\ xAttempts' = Append(xAttempts, "api")
                     /\ xStart' = clock
                     /\ UNCHANGED <<whUrl, errLog, xOutcome, xRaised, xResult,
                                    xContext, metadata>>
                ELSE /\ Finish(Recorded(xResult))
                     /\ UNCHANGED <<xAttempts, whUrl, xStart, errLog>>
    /\ UNCHANGED <<xMethod, xDebug, xAutoAct, xTestMode, xTimestamp,
                   clock, xEvents, xFailed, polls, sleeps, pollStatus,
                   firstFinishedAt, firstErrorAt, firstRaiseAt>>
    /\ UNCHANGED <<xPreRead, whAnswer, whReported, exitCode>>
    /\ UNCHANGED nonExecVars

(***************************************************************************)
(* WebhookManager.verify_webhook_registration (scripts/webhook_utils.py)   *)
(***************************************************************************)

\* What the two probes can meet: an exception at the OPTIONS or at the HEAD
\* request, or two status codes and the Allow header of the OPTIONS response
\* (the list of the methods it names)
Probes ==
    [exc : {"none"}, at : {"none"}, options : {200, 404}, head : {200, 404},
     allow : {<<>>, <<"GET", "HEAD">>, <<"GET", "POST">>}]
    \cup
    [exc : {"connection", "timeout"}, at : {"options", "head"},
     options : {200}, head : {200}, allow : {<<>>}]

InAllow_Always(method, allow) == TRUE

InAllow(method, allow) == \E i \in DOMAIN allow : allow[i] = method

\* lines 146-176
VerifyRegistration(probe, method) ==
    IF probe.exc = "connection"
    THEN [registered |-> FALSE, reason |-> "connection_error", allowed |-> <<>>]
    ELSE IF probe.exc # "none"
    THEN [registered |-> FALSE, reason |-> "exception", allowed |-> <<>>]
    ELSE IF probe.options = 404 /\ probe.head = 404
    THEN [registered |-> FALSE, reason |-> "endpoint_not_found",
          allowed |-> <<>>]
    ELSE IF probe.allow # <<>> /\ ~InAllow(method, probe.allow)
    THEN [registered |-> FALSE, reason |-> "method_not_allowed",
          allowed |-> probe.allow]
    ELSE [registered |-> TRUE, reason |-> "none", allowed |-> <<>>]

\* the requests verify_webhook_registration issues
ProbeEvents(probe, url) ==
    IF probe.at = "options"
    THEN <<EvUrl("OPTIONS webhook", url)>>
    ELSE <<EvUrl("OPTIONS webhook", url), EvUrl("HEAD webhook", url)>>

(***************************************************************************)
(* execute_via_webhook                                                     *)
(***************************************************************************)

whFrame == <<xMethod, xDebug, xAutoAct, xTestMode, xTimestamp,
             clock, xStart, polls, sleeps, pollStatus, firstFinishedAt,
             firstErrorAt, firstRaiseAt>>

\* lines 321-329: the registration is verified for the default method POST;
\* an unregistered endpoint outside test mode switches to the test URL
WhVerify(probe) ==
    /\ xpc = "whVerify"
    /\ LET v == VerifyRegistration(probe, "POST")
       IN  /\ xEvents' = xEvents \o ProbeEvents(probe, whUrl.url)
           /\ whUrl' = IF ~v.registered /\ ~whUrl.test
                       THEN [url |-> ToTestUrl(whUrl.url), test |-> TRUE]
                       ELSE whUrl
           /\ whReported' = IF v.registered THEN "registered"
                            ELSE "unregistered"
    /\ xpc' = "whSend"
    /\ UNCHANGED <<xAttempts, xFailed, xResult, xOutcome, xRaised, errLog,
                   xContext, metadata>>
    /\ UNCHANGED whFrame
    /\ UNCHANGED <<xPreRead, whAnswer, exitCode>>
    /\ UNCHANGED nonExecVars

WebhookOutcomes == {"ok", "ok_with_id", "http_404", "http_500", "timeout",
                    "conn_error"}

\* response.status_code and response.text of the webhook answers
StatusCode(out) ==
    IF out \in {"ok", "ok_with_id"} THEN 200
    ELSE IF out = "http_404" THEN 404 ELSE 500

ResponseText(out) ==
    IF out = "http_404" THEN "webhook not registered"
    ELSE IF out = "http_500" THEN "workflow could not be started"
    ELSE "accepted"

\* line 351: response.ok
ResponseOk_Always(out) == TRUE

ResponseOk(out) == out \in {"ok", "ok_with_id"}

\* lines 345-401: requests.get raises on a timeout or a transport failure;
\* an HTTP answer, whatever its status, gives a result dict
WebhookRaises_OnHttpError(out) == out \notin {"ok", "ok_with_id"}

WebhookRaises(out) == out \in {"timeout", "conn_error"}

\* lines 351-389: the result dict of a webhook response
WebhookResult(out, url, duration) ==
    IF ResponseOk(out)
    THEN [present |-> TRUE,
          keys |-> {"execution_id", "status", "duration", "webhook_url",
                    "response_status", "data"},
          execution_id |-> IF out = "ok_with_id" THEN "header-id"
                           ELSE "webhook-ts",
          status |-> "success", duration |-> duration,
          execution_method |-> "absent", webhook_url |-> url,
          response_status |-> StatusCode(out), return_code |-> 0,
          error |-> <<>>]
    ELSE [present |-> TRUE,
          keys |-> {"execution_id", "status", "duration", "error",
                    "response_status"},
          execution_id |-> "None",
          status |-> "error", duration |-> duration,
          execution_method |-> "absent", webhook_url |-> NoUrl,
          response_status |-> StatusCode(out),
          return_code |-> 0,
          error |-> <<"Webhook failed with status", StatusCode(out),
                      ResponseText(out)>>]

\* lines 172-177: a webhook attempt that raised ends the call only when the
\* webhook method was requested
WebhookRaiseIsFinal_Always(method) == TRUE

WebhookRaiseIsFinal(method) == method = "webhook"

\* lines 331-408 and 156-180: the trigger request and what follows it
WhSend(out) ==
    /\ xpc = "whSend"
    /\ xEvents' = Append(xEvents, EvUrl("GET webhook", whUrl.url))
    /\ whAnswer' = out
    /\ IF WebhookRaises(out)
       THEN /\ xFailed' = Append(xFailed, Failure("webhook", out))
            /\ IF WebhookRaiseIsFinal(xMethod)
               THEN /\ FinishRaise(IF out = "timeout" THEN "webhook_timeout"
                                   ELSE "webhook_error", "webhook")
                    /\ errLog' = <<out, "webhook_raised">>
                    /\ UNCHANGED <<xAttempts, xStart>>
               ELSE /\ errLog' = <<out>>
                    /\ IF ApiFollowsWebhook(xMethod)
                       THEN /\ xpc' = "apiPost"
                            /\ xAttempts' = Append(xAttempts, "api")
                            /\ xStart' = clock
                            /\ UNCHANGED <<xOutcome, xRaised, xResult,
                                           xContext, metadata>>
                       ELSE /\ Finish(Recorded(xResult))
                            /\ UNCHANGED <<xAttempts, xStart>>
       ELSE /\ Finish(Recorded(WebhookResult(out, whUrl.url, clock - xStart)))
            /\ errLog' = IF ResponseOk(out) THEN <<>>
                         ELSE <<out>>
            /\ UNCHANGED <<xAttempts, xFailed, xStart>>
    /\ UNCHANGED <<xMethod, xDebug, xAutoAct, xTestMode, xTimestamp,
                   clock, whUrl, polls, sleeps, pollStatus, firstFinishedAt,
                   firstErrorAt, firstRaiseAt>>
    /\ UNCHANGED <<xPreRead, whReported, exitCode>>
    /\ UNCHANGED nonExecVars

(***************************************************************************)
(* execute_via_api and poll_execution_status                               *)
(***************************************************************************)

\* lines 246-262 and 288-292, 189-207: POST .../execute; a failure is logged
\* and raised, and execute_workflow falls back to the CLI unless the api
\* method was requested
ApiPost(resp) ==
    /\ xpc = "apiPost"
    /\ xEvents' = Append(xEvents, Ev("POST execute"))
    /\ IF resp # "ok"
       THEN /\ xFailed' = Append(xFailed, Failure("api", resp))
            /\ errLog' = Append(errLog, "api_error")
            /\ IF CliFollowsApi(xMethod)
               THEN /\ xpc' = "cli"
                    /\ xAttempts' = Append(xAttempts, "cli")
                    /\ UNCHANGED <<xOutcome, xRaised, xResult, xContext,
                                   metadata>>
               ELSE /\ FinishRaise("api_error", "api")
                    /\ UNCHANGED xAttempts
       ELSE /\ xpc' = "poll"
            /\ UNCHANGED <<xAttempts, xFailed, errLog, xOutcome, xRaised,
                           xResult, xContext, metadata>>
    /\ UNCHANGED <<xMethod, xDebug, xAutoAct, xTestMode, xTimestamp, clock,
                   xStart, whUrl, polls, sleeps, pollStatus, firstFinishedAt,
                   firstErrorAt, firstRaiseAt>>
    /\ UNCHANGED <<xPreRead, whAnswer, whReported, exitCode>>
    /\ UNCHANGED nonExecVars

\* What a poll request can meet: a failure of the request, or a body with
\* finished, stoppedAt (null or not) and an error key (present or not)
PollResponses ==
    [fails : {FALSE}, finished : BOOLEAN, stopped : BOOLEAN, error : BOOLEAN]
    \cup
    [fails : {TRUE}, finished : {FALSE}, stopped : {FALSE}, error : {FALSE}]

HasErrorShape(r) == r.stopped /\ r.error

\* lines 480-500: what one loop iteration makes of the response
PollDecision_MissFinished(r) ==
    IF r.fails THEN "unknown"
    ELSE IF HasErrorShape(r) THEN "error"
    ELSE IF r.finished /\ r.stopped THEN "success"
    ELSE "continue"

PollDecision_FinishedFirst(r) ==
    IF r.fails THEN "unknown"
    ELSE IF r.finished THEN "success"
    ELSE IF HasErrorShape(r) THEN "error"
    ELSE "continue"

PollDecision(r) ==
    IF r.fails THEN "unknown"
    ELSE IF r.finished \/ HasErrorShape(r)
         THEN (IF HasErrorShape(r) THEN "error" ELSE "success")
         ELSE "continue"

\* line 479: for i in range(max_polls)
LoopExhausted(n) == n >= MaxPolls

\* lines 264-286: execute_via_api returns a dict for success and error only;
\* for any other status the function ends without a return statement
ApiReturnsResult(status) == status \in {"success", "error"}

\* lines 281-286
ApiResult(status, duration) ==
    [present |-> TRUE,
     keys |-> {"execution_id", "status", "duration", "data"},
     execution_id |-> "exec-1", status |-> status, duration |-> duration,
     execution_method |-> "absent", webhook_url |-> NoUrl,
     response_status |-> 0, return_code |-> 0, error |-> <<>>]

\* lines 479-503 (one iteration of the loop) and, when polling ends without
\* success or error, lines 264-299 and 209-216
Poll(r) ==
    /\ xpc = "poll"
    /\ ~LoopExhausted(polls)
    /\ polls' = polls + 1
    /\ firstFinishedAt' = IF firstFinishedAt = 0 /\ ~r.fails /\ r.finished
                             /\ ~HasErrorShape(r)
                          THEN polls + 1 ELSE firstFinishedAt
    /\ firstErrorAt' = IF firstErrorAt = 0 /\ ~r.fails /\ HasErrorShape(r)
                       THEN polls + 1 ELSE firstErrorAt
    /\ firstRaiseAt' = IF firstRaiseAt = 0 /\ r.fails
                       THEN polls + 1 ELSE firstRaiseAt
    /\ LET d == PollDecision(r)
           slept == (d = "continue")
           status == IF d # "continue" THEN d
                     ELSE IF LoopExhausted(polls + 1) THEN "timeout"
                     ELSE "none"
           now == IF slept THEN clock + PollInterval ELSE clock
       IN  /\ sleeps' = IF slept THEN sleeps + 1 ELSE sleeps
           /\ clock' = now
           /\ pollStatus' = status
           /\ IF status = "none"
              THEN /\ xpc' = "poll"
                   /\ UNCHANGED <<xOutcome, xRaised, xResult, xContext,
                                  metadata>>
              ELSE IF status \in {"success", "error"}
              THEN /\ xpc' = "detail"
                   /\ UNCHANGED <<xOutcome, xRaised, xResult, xContext,
                                  metadata>>
              ELSE IF ApiReturnsResult(status)
              THEN Finish(Recorded(ApiResult(status, now - xStart)))
              ELSE Finish(Recorded(NoXResult))
    /\ UNCHANGED <<xMethod, xDebug, xAutoAct, xTestMode, xTimestamp,
                   xStart, xEvents, xAttempts, xFailed, whUrl, errLog>>
    /\ UNCHANGED <<xPreRead, whAnswer, whReported, exitCode>>
    /\ UNCHANGED nonExecVars

\* lines 264-286 with 505-519, then 209-216: the execution detail is fetched
\* (a failed fetch yields {'error': ...}), an error detail is logged, and
\* the result is recorded and returned; the fetch takes latency seconds
Detail(resp, detailHasError, latency) ==
    /\ xpc = "detail"
    /\ xEvents' = Append(xEvents, Ev("GET execution"))
    /\ clock' = clock + latency
    /\ errLog' = IF pollStatus = "error" /\ (resp # "ok" \/ detailHasError)
                 THEN Append(errLog, "api_detail") ELSE errLog
    /\ IF ApiReturnsResult(pollStatus)
       THEN Finish(Recorded(ApiResult(pollStatus, clock + latency - xStart)))
       ELSE Finish(Recorded(NoXResult))
    /\ UNCHANGED <<xMethod, xDebug, xAutoAct, xTestMode, xTimestamp,
                   xStart, xAttempts, xFailed, whUrl, polls, sleeps,
                   pollStatus, firstFinishedAt, firstErrorAt, firstRaiseAt>>
    /\ UNCHANGED <<xPreRead, whAnswer, whReported, exitCode>>
    /\ UNCHANGED nonExecVars

(***************************************************************************)
(* execute_via_cli                                                         *)
(***************************************************************************)

ExitCodes == {0, 1, 2}

\* line 453
CliStatus_AlwaysSuccess(returncode) == "success"

CliStatus(returncode) == IF returncode = 0 THEN "success" ELSE "error"

\* lines 455-460
CliResult(returncode, duration) ==
    [present |-> TRUE,
     keys |-> {"execution_method", "status", "return_code", "duration"},
     execution_id |-> "absent", status |-> CliStatus(returncode),
     duration |-> duration, execution_method |-> "cli",
     webhook_url |-> NoUrl, response_status |-> 0,
     return_code |-> returncode, error |-> <<>>]

\* lines 410-465 and 202-216: the process is spawned with both log files
\* opened for writing; it either cannot be spawned, which is logged and
\* raised, or runs to its exit code
Cli(debug, spawned, returncode, stderrOutput, runtime) ==
    /\ xpc = "cli"
    /\ xDebug' = debug
    /\ xEvents' = Append(xEvents, Ev(IF debug THEN "n8n execute --log-level debug"
                                     ELSE "n8n execute"))
    /\ IF ~spawned
       THEN /\ xFailed' = Append(xFailed, Failure("cli", "spawn"))
            /\ errLog' = <<"cli_error", "cli_raised">>
            /\ clock' = clock
            /\ FinishRaise("cli_error", "cli")
       ELSE /\ clock' = clock + runtime
            /\ errLog' = IF stderrOutput THEN <<"cli_stderr">> ELSE <<>>
            /\ Finish(Recorded(CliResult(returncode, runtime)))
            /\ UNCHANGED xFailed
    /\ UNCHANGED <<xMethod, xAutoAct, xTestMode, xTimestamp,
                   xStart, xAttempts, whUrl, polls, sleeps, pollStatus,
                   firstFinishedAt, firstErrorAt, firstRaiseAt>>
    /\ UNCHANGED <<xPreRead, whAnswer, whReported, exitCode>>
    /\ UNCHANGED nonExecVars

\* lines 634-642: the exit code main returns for what execute_workflow did
MainExitCode_AnyResult(outcome, result) ==
    IF outcome = "raised" THEN 1
    ELSE IF result.present THEN 0 ELSE 1

MainExitCode(outcome, result) ==
    IF outcome = "raised" THEN 1
    ELSE IF result.present /\ "status" \in result.keys
            /\ result.status = "success"
         THEN 0 ELSE 1

\* lines 625-645: execute_workflow has returned or raised; main returns and
\* the process exits with that value
MainExit ==
    /\ xpc = "done"
    /\ exitCode' = MainExitCode(xOutcome, xResult)
    /\ xpc' = "exited"
    /\ UNCHANGED <<xMethod, xDebug, xAutoAct, xTestMode, metadata, xTimestamp,
                   clock, xStart, xEvents, xAttempts, xFailed, whUrl, polls,
                   sleeps, pollStatus, firstFinishedAt, firstErrorAt,
                   firstRaiseAt, xResult, xOutcome, xRaised, errLog, xContext,
                   xPreRead, whAnswer, whReported>>
    /\ UNCHANGED nonExecVars

ExecInit ==
    /\ xpc = "idle"
    /\ xMethod = "auto"
    /\ xDebug = FALSE
    /\ xAutoAct = FALSE
    /\ xTestMode = FALSE
    /\ metadata \in Workspaces
    /\ xTimestamp = 0
    /\ clock = 0
    /\ xStart = 0
    /\ xEvents = <<>>
    /\ xAttempts = <<>>
    /\ xFailed = <<>>
    /\ whUrl = [url |-> NoUrl, test |-> FALSE]
    /\ polls = 0
    /\ sleeps = 0
    /\ pollStatus = "none"
    /\ xPreRead = "none"
    /\ whAnswer = "none"
    /\ whReported = "none"
    /\ exitCode = -1
    /\ firstFinishedAt = 0
    /\ firstErrorAt = 0
    /\ firstRaiseAt = 0
    /\ xResult = NoXResult
    /\ xOutcome = "none"
    /\ xRaised = NoRaise
    /\ errLog = <<>>
    /\ xContext = NoXResult

(***************************************************************************)
(* Specifications                                                          *)
(***************************************************************************)

(***************************************************************************)
(* extract_webhook_urls (scripts/webhook_utils.py and import_workflow.py)  *)
(***************************************************************************)

\* longest node list explored
MaxNodes == 2

\* A string that is searched or joined is kept as the sequence of its
\* pieces: a node type as the pieces around the word webhook, a path as its
\* slash-separated parts, a URL as its slash-separated parts after the base.

\* node types: the webhook trigger, the respond-to-webhook node, the HTTP
\* request node, and a node without the 'type' key (read as '')
NodeTypes ==
    { <<"n8n-nodes-base.", "webhook">>,
      <<"n8n-nodes-base.respondTo", "Webhook">>,
      <<"n8n-nodes-base.httpRequest">>,
      <<>> }

NodePaths == { <<>>, <<"orders">>, <<"a", "webhook", "b">> }

NodeWebhookIds == {"", "wh-1"}

\* the nodes a workflow.json can hold: with a parameters map (path given or
\* not, method given or not), or without the 'parameters' key, which
\* validate_workflow does not ask for
Nodes ==
    [type : NodeTypes, name : {"Hook"}, hasParameters : {TRUE},
     path : NodePaths, method : {"absent"}, webhookId : NodeWebhookIds]
    \cup
    [type : NodeTypes, name : {"absent"}, hasParameters : {TRUE},
     path : {<<"orders">>}, method : {"POST"}, webhookId : {""}]
    \cup
    [type : NodeTypes, name : {"Hook"}, hasParameters : {FALSE},
     path : {<<>>}, method : {"absent"}, webhookId : NodeWebhookIds]

WorkflowInputs == SeqsUpTo(Nodes, MaxNodes)

\* str.lower() on one piece of a type name
LowerPiece(piece) ==
    IF piece = "Webhook" THEN "webhook"
    ELSE IF piece = "n8n-nodes-base.respondTo" THEN "n8n-nodes-base.respondto"
    ELSE IF piece = "n8n-nodes-base.httpRequest"
         THEN "n8n-nodes-base.httprequest"
    ELSE piece

Lower(text) == [i \in DOMAIN text |-> LowerPiece(text[i])]

\* 'webhook' in text
ContainsWebhook(text) == \E i \in DOMAIN text : text[i] = "webhook"

\* webhook_utils.py line 44, import_workflow.py line 41
IsWebhookNode(node) == ContainsWebhook(Lower(node.type))

\* WebhookManager.base_url and the importer's config base_url
ManagerBaseUrl == "https://n8n.x-silicon.club"

\* f"{base}/webhook/{x}" and f"{base}/webhook-test/{x}"
WebhookUrlOf(base, x) == <<base, "webhook">> \o x

WebhookTestUrlOf(base, x) == <<base, "webhook-test">> \o x

\* webhook_utils.py lines 45-61: the entry built for one matching node
ManagerEntry(base, node) ==
    LET info == [node_name |-> IF node.name = "absent" THEN "Unnamed"
                               ELSE node.name,
                 path |-> node.path,
                 method |-> IF node.method = "absent" THEN "GET"
                            ELSE node.method,
                 webhook_id |-> node.webhookId,
                 response_mode |-> "onReceived"]
        fields == {"node_name", "path", "method", "webhook_id",
                   "response_mode"}
    IN  IF info.path # <<>>
        THEN info @@ [keys |-> fields \cup {"production_url", "test_url"},
                      production_url |-> WebhookUrlOf(base, info.path),
                      test_url |-> WebhookTestUrlOf(base, info.path)]
        ELSE IF info.webhook_id # ""
        THEN info @@ [keys |-> fields \cup {"production_url", "test_url"},
                      production_url |-> WebhookUrlOf(base, <<info.webhook_id>>),
                      test_url |-> WebhookTestUrlOf(base, <<info.webhook_id>>)]
        ELSE info @@ [keys |-> fields, production_url |-> NoUrl,
                      test_url |-> NoUrl]

\* webhook_utils.py lines 36-63: a JSON text is parsed first; the loop
\* reads node['parameters'] of every matching node, which raises KeyError
\* on a node without that key
ManagerExtractWebhookUrls(base, form, nodes) ==
    LET matching == SelectSeq(nodes, IsWebhookNode)
    IN  IF \E i \in DOMAIN matching : ~matching[i].hasParameters
        THEN [outcome |-> "raised", error |-> "KeyError", webhooks |-> <<>>]
        ELSE [outcome |-> "returned", error |-> "none",
              webhooks |-> [i \in DOMAIN matching |->
                               ManagerEntry(base, matching[i])]]

\* an entry whose URLs are built from the path only
ImporterEntry_PathOnly(base, node) ==
    LET info == [node_name |-> IF node.name = "absent" THEN "Unnamed"
                               ELSE node.name,
                 path |-> node.path,
                 method |-> IF node.method = "absent" THEN "GET"
                            ELSE node.method,
                 webhook_id |-> node.webhookId,
                 response_mode |-> "onReceived"]
        fields == {"node_name", "path", "method", "webhook_id",
                   "response_mode"}
    IN  IF info.path # <<>>
        THEN info @@ [keys |-> fields \cup {"production_url", "test_url"},
                      production_url |-> WebhookUrlOf(base, info.path),
                      test_url |-> WebhookTestUrlOf(base, info.path)]
        ELSE info @@ [keys |-> fields, production_url |-> NoUrl,
                      test_url |-> NoUrl]

\* import_workflow.py lines 42-58: the entry built for one matching node
ImporterEntry(base, node) ==
    LET info == [node_name |-> IF node.name = "absent" THEN "Unnamed"
                               ELSE node.name,
                 path |-> node.path,
                 method |-> IF node.method = "absent" THEN "GET"
                            ELSE node.method,
                 webhook_id |-> node.webhookId,
                 response_mode |-> "onReceived"]
        fields == {"node_name", "path", "method", "webhook_id",
                   "response_mode"}
    IN  IF info.path # <<>>
        THEN info @@ [keys |-> fields \cup {"production_url", "test_url"},
                      production_url |-> WebhookUrlOf(base, info.path),
                      test_url |-> WebhookTestUrlOf(base, info.path)]
        ELSE IF info.webhook_id # ""
        THEN info @@ [keys |-> fields \cup {"production_url", "test_url"},
                      production_url |-> WebhookUrlOf(base, <<info.webhook_id>>),
                      test_url |-> WebhookTestUrlOf(base, <<info.webhook_id>>)]
        ELSE info @@ [keys |-> fields, production_url |-> NoUrl,
                      test_url |-> NoUrl]

\* import_workflow.py lines 36-60: workflow_json.get is called on the
\* argument as it is
ImporterExtractWebhookUrls(base, form, nodes) ==
    IF form = "str"
    THEN [outcome |-> "raised", error |-> "AttributeError", webhooks |-> <<>>]
    ELSE LET matching == SelectSeq(nodes, IsWebhookNode)
         IN  IF \E i \in DOMAIN matching : ~matching[i].hasParameters
             THEN [outcome |-> "raised", error |-> "KeyError",
                   webhooks |-> <<>>]
             ELSE [outcome |-> "returned", error |-> "none",
                   webhooks |-> [i \in DOMAIN matching |->
                                    ImporterEntry(base, matching[i])]]

NoStoredConfig ==
    [present |-> FALSE, keys |-> {}, webhooks |-> <<>>,
     extracted_at |-> "absent", workflow_file |-> "absent"]

\* webhook_utils.py lines 306-312: the webhook_config the extract command
\* stores
ManagerStoredConfig(webhooks) ==
    [present |-> TRUE, keys |-> {"webhooks", "extracted_at", "workflow_file"},
     webhooks |-> webhooks, extracted_at |-> "now",
     workflow_file |-> "workflow.json"]

\* import_workflow.py lines 187-190: the webhook_config import_workflow
\* stores
ImporterStoredConfig(webhooks) ==
    [present |-> TRUE, keys |-> {"webhooks", "extracted_at"},
     webhooks |-> webhooks, extracted_at |-> "now",
     workflow_file |-> "absent"]

\* webhook_utils.py line 298 and import_workflow.py line 120: a list is
\* stored only when it is not empty
StoresList(save, r) == save /\ r.outcome = "returned" /\ r.webhooks # <<>>

\* WebhookManager.extract_webhook_urls is applied to the definition, and
\* the extract command stores the list when --save is given
ManagerExtract(save) ==
    /\ epc = "idle"
    /\ LET r == ManagerExtractWebhookUrls(ManagerBaseUrl, wfForm, wfNodes)
       IN  /\ exOutcome' = r.outcome
           /\ exError' = r.error
           /\ exWebhooks' = r.webhooks
           /\ exStored' = IF StoresList(save, r)
                          THEN ManagerStoredConfig(r.webhooks)
                          ELSE NoStoredConfig
    /\ exBy' = "manager"
    /\ epc' = "done"
    /\ UNCHANGED <<wfForm, wfNodes>>
    /\ UNCHANGED nonExtractVars

\* WorkflowImporter.extract_webhook_urls is applied to the definition its
\* callers loaded with json.load (lines 119 and 393); import_workflow
\* stores the list, the validation command does not
ImporterExtract(save) ==
    /\ epc = "idle"
    /\ wfForm = "dict"
    /\ LET r == ImporterExtractWebhookUrls(BaseUrl, wfForm, wfNodes)
       IN  /\ exOutcome' = r.outcome
           /\ exError' = r.error
           /\ exWebhooks' = r.webhooks
           /\ exStored' = IF StoresList(save, r)
                          THEN ImporterStoredConfig(r.webhooks)
                          ELSE NoStoredConfig
    /\ exBy' = "importer"
    /\ epc' = "done"
    /\ UNCHANGED <<wfForm, wfNodes>>
    /\ UNCHANGED nonExtractVars

\* no extraction asked for
ExtractInit ==
    /\ wfForm = "dict"
    /\ wfNodes = <<>>
    /\ epc = "idle"
    /\ exBy = "none"
    /\ exOutcome = "none"
    /\ exError = "none"
    /\ exWebhooks = <<>>
    /\ exStored = NoStoredConfig

(***************************************************************************)
(* verify_webhook_registration called on its own (webhook_utils.py)        *)
(***************************************************************************)

\* the method argument, POST by default
VerifyMethods == {"GET", "POST", "PUT", "DELETE"}

\* what the probes of a stand-alone call can meet: as in Probes, with the
\* method-not-allowed status and more Allow headers
VerifyProbes ==
    Probes
    \cup
    [exc : {"none"}, at : {"none"}, options : {200, 404, 405},
     head : {200, 404, 405},
     allow : {<<>>, <<"GET", "HEAD">>, <<"GET", "POST">>, <<"POST">>}]

NoVerifyResult == [registered |-> FALSE, reason |-> "not called", allowed |-> <<>>]

\* lines 146-176: the whole function
VerifyCall ==
    /\ vpc = "idle"
    /\ vrEvents' = ProbeEvents(vrProbe, ProductionUrl("orders"))
    /\ vrResult' = VerifyRegistration(vrProbe, vrMethod)
    /\ vpc' = "done"
    /\ UNCHANGED <<vrProbe, vrMethod>>
    /\ UNCHANGED nonVerifyVars

\* no verification asked for
VerifyInit ==
    /\ vpc = "idle"
    /\ vrProbe = [exc |-> "none", at |-> "none", options |-> 200,
                  head |-> 200, allow |-> <<>>]
    /\ vrMethod = "POST"
    /\ vrEvents = <<>>
    /\ vrResult = NoVerifyResult


(***************************************************************************)
(* Configuration (__init__ of WorkflowExecutor and WorkflowActivator)      *)
(***************************************************************************)

DefaultBaseUrl == "http://localhost:5678"

ConfigArgs == {"none", "existing", "missing"}

ConfigFiles ==
    [base_url : {"http://file:5678", "https://n8n.example"},
     api_key : {"absent", "file-key"}]

EnvUrls == {"unset", "http://env:5678"}

EnvKeys == {"unset", "env-key"}

\* os.getenv(name, default)
GetEnv(value, default) == IF value = "unset" THEN default ELSE value

\* lines 21-27 of both constructors: the file that is loaded, if any.
\* Without the argument the config.json of the parent directory is taken
\* when it exists; a path given but missing is not replaced by it.
ConfigFileRead(arg, parent) ==
    IF arg = "none" THEN parent ELSE arg = "existing"

\* config['n8n_api'].get('api_key'): an absent key sends no header, as ''
FileApiKey(file) == IF file.api_key = "absent" THEN "" ELSE file.api_key

\* execute_workflow.py lines 19-42
ExecutorConfig(arg, parent, file, url, key) ==
    IF ConfigFileRead(arg, parent)
    THEN [source |-> "file", base_url |-> file.base_url,
          api_key |-> FileApiKey(file)]
    ELSE [source |-> "default",
          base_url |-> GetEnv(url, DefaultBaseUrl),
          api_key |-> GetEnv(key, "")]

\* activate_workflow.py lines 17-35
ActivatorConfig(arg, parent, file, url, key) ==
    IF ConfigFileRead(arg, parent)
    THEN [source |-> "file", base_url |-> file.base_url,
          api_key |-> FileApiKey(file)]
    ELSE [source |-> "default",
          base_url |-> GetEnv(url, DefaultBaseUrl),
          api_key |-> GetEnv(key, "")]

NoConfig == [source |-> "none", base_url |-> "", api_key |-> ""]

\* WorkflowExecutor(config_path)
ExecutorConstruct ==
    /\ cpc = "idle"
    /\ cfgResolved' = ExecutorConfig(cfgArg, cfgParent, cfgFile, envUrl, envKey)
    /\ cfgBy' = "executor"
    /\ cpc' = "done"
    /\ UNCHANGED <<cfgArg, cfgParent, cfgFile, envUrl, envKey>>
    /\ UNCHANGED nonConfigVars

\* WorkflowActivator(config_path)
ActivatorConstruct ==
    /\ cpc = "idle"
    /\ cfgResolved' = ActivatorConfig(cfgArg, cfgParent, cfgFile, envUrl, envKey)
    /\ cfgBy' = "activator"
    /\ cpc' = "done"
    /\ UNCHANGED <<cfgArg, cfgParent, cfgFile, envUrl, envKey>>
    /\ UNCHANGED nonConfigVars

\* the configuration the other specifications run under: no file, no
\* environment variable
ConfigInit ==
    /\ cfgArg = "none"
    /\ cfgParent = FALSE
    /\ cfgFile = [base_url |-> "http://file:5678", api_key |-> "absent"]
    /\ envUrl = "unset"
    /\ envKey = "unset"
    /\ cpc = "idle"
    /\ cfgBy = "none"
    /\ cfgResolved = NoConfig


(***************************************************************************)
(* metadata.json and its updaters (execute_workflow.py, webhook_utils.py,  *)
(* import_workflow.py) and cleanup_old_logs (workflow_manager.py)          *)
(***************************************************************************)

Procs == {1, 2}

UpdaterKinds == {"execution", "webhook_utils", "import_webhooks", "import",
                 "cleanup"}

\* keep_last of cleanup_old_logs
KeepLast == 5

MetaKeys == {"workflow_name", "workflow_id", "last_import", "webhook_config",
             "last_updated", "last_execution"}

\* a float of seconds, as timedelta.total_seconds() gives it
Floats == {[s |-> 0, us |-> 0], [s |-> 1, us |-> 500000], [s |-> 2, us |-> 0]}

\* the result dicts update_execution_metadata is called with
MetaResult(status, duration) ==
    [keys |-> {"execution_id", "status", "duration", "data"},
     status |-> status, duration |-> duration]

MetaResults ==
    {MetaResult(st, d) : st \in {"success", "error"}, d \in Floats}

NoMetaResult == [keys |-> {}, status |-> "", duration |-> [s |-> 0, us |-> 0]]

NoMetaLastExecution ==
    [timestamp |-> "", status |-> "", duration |-> [s |-> 0, us |-> 0],
     log_file |-> <<>>]

\* the dict {} and a dict as json.load returns it: the keys present and
\* their values
EmptyDict ==
    [keys |-> {}, workflow_name |-> "", workflow_id |-> "",
     last_import |-> "", webhook_config |-> "", last_updated |-> "",
     last_execution |-> NoMetaLastExecution]

\* json.dump / json.load of the values metadata.json holds: a string is
\* written between quotes, a float as its whole part, a point and its
\* fraction
EncodeStr(str) == <<"\"", str, "\"">>

DecodeStr(text) == text[2]

EncodeNum(num) == <<num.s, ".", num.us>>

DecodeNum_Truncate(text) == [s |-> text[1], us |-> 0]

DecodeNum(text) == [s |-> text[1], us |-> text[3]]

JsonDump(dict) ==
    [keys |-> dict.keys,
     workflow_name |-> EncodeStr(dict.workflow_name),
     workflow_id |-> EncodeStr(dict.workflow_id),
     last_import |-> EncodeStr(dict.last_import),
     webhook_config |-> EncodeStr(dict.webhook_config),
     last_updated |-> EncodeStr(dict.last_updated),
     last_execution |->
        [timestamp |-> EncodeStr(dict.last_execution.timestamp),
         status |-> EncodeStr(dict.last_execution.status),
         duration |-> EncodeNum(dict.last_execution.duration),
         log_file |-> EncodeStr(dict.last_execution.log_file)]]

JsonLoad(doc) ==
    [keys |-> doc.keys,
     workflow_name |-> DecodeStr(doc.workflow_name),
     workflow_id |-> DecodeStr(doc.workflow_id),
     last_import |-> DecodeStr(doc.last_import),
     webhook_config |-> DecodeStr(doc.webhook_config),
     last_updated |-> DecodeStr(doc.last_updated),
     last_execution |->
        [timestamp |-> DecodeStr(doc.last_execution.timestamp),
         status |-> DecodeStr(doc.last_execution.status),
         duration |-> DecodeNum(doc.last_execution.duration),
         log_file |-> DecodeStr(doc.last_execution.log_file)]]

\* the file: absent, holding a JSON document, or open for writing / partly
\* written (no JSON document can be read from it)
NoFile == [state |-> "absent", doc |-> JsonDump(EmptyDict)]

ValidFile(dict) == [state |-> "valid", doc |-> JsonDump(dict)]

BrokenFile == [state |-> "broken", doc |-> JsonDump(EmptyDict)]

\* metadata.json as setup_workspace, and then earlier imports and
\* executions, left it
FreshDict == [EmptyDict EXCEPT !.keys = {"workflow_name"},
                               !.workflow_name = "order_sync"]

UsedDict ==
    [keys |-> MetaKeys, workflow_name |-> "order_sync",
     workflow_id |-> "wf-old", last_import |-> "import-old",
     webhook_config |-> "webhooks-old", last_updated |-> "updated-old",
     last_execution |-> [timestamp |-> "ts-old", status |-> "error",
                         duration |-> [s |-> 2, us |-> 0],
                         log_file |-> <<"logs/execution_", "ts-old", ".log">>]]

InitialFiles == {NoFile, ValidFile(FreshDict), ValidFile(UsedDict)}

Stamp(p) == IF p = 1 THEN "ts-1" ELSE "ts-2"

\* execute_workflow.py lines 570-576
UpdateExecutionDict_Fresh(dict, ts, result) ==
    [EmptyDict EXCEPT
        !.keys = {"last_execution"},
        !.last_execution =
            [timestamp |-> ts,
             status |-> IF "status" \in result.keys THEN result.status
                        ELSE "unknown",
             duration |-> IF "duration" \in result.keys THEN result.duration
                          ELSE [s |-> 0, us |-> 0],
             log_file |-> <<"logs/execution_", ts, ".log">>]]

UpdateExecutionDict(dict, ts, result) ==
    [dict EXCEPT
        !.keys = @ \cup {"last_execution"},
        !.last_execution =
            [timestamp |-> ts,
             status |-> IF "status" \in result.keys THEN result.status
                        ELSE "unknown",
             duration |-> IF "duration" \in result.keys THEN result.duration
                          ELSE [s |-> 0, us |-> 0],
             log_file |-> <<"logs/execution_", ts, ".log">>]]

\* webhook_utils.py lines 211-213
ManagerSaveWebhookDict(dict, ts) ==
    [dict EXCEPT !.keys = @ \cup {"webhook_config", "last_updated"},
                 !.webhook_config = "webhooks",
                 !.last_updated = ts]

\* import_workflow.py lines 186-190
ImporterSaveWebhookDict(dict, ts) ==
    [dict EXCEPT !.keys = @ \cup {"webhook_config"},
                 !.webhook_config = "webhooks"]

\* import_workflow.py lines 205-211
UpdateImportDict(dict, ts) ==
    [dict EXCEPT !.keys = @ \cup {"workflow_id", "last_import"},
                 !.workflow_id = "wf-42",
                 !.last_import = ts]

UpdatedDict_Merge(kind, dict, ts, result) ==
    LET now == IF mdDisk.state = "valid" THEN JsonLoad(mdDisk.doc) ELSE dict
    IN  IF kind = "execution" THEN UpdateExecutionDict(now, ts, result)
        ELSE IF kind = "webhook_utils" THEN ManagerSaveWebhookDict(now, ts)
        ELSE IF kind = "import_webhooks" THEN ImporterSaveWebhookDict(now, ts)
        ELSE UpdateImportDict(now, ts)

\* the assignment each updater makes to its local dict
UpdatedDict(kind, dict, ts, result) ==
    IF kind = "execution" THEN UpdateExecutionDict(dict, ts, result)
    ELSE IF kind = "webhook_utils" THEN ManagerSaveWebhookDict(dict, ts)
    ELSE IF kind = "import_webhooks" THEN ImporterSaveWebhookDict(dict, ts)
    ELSE UpdateImportDict(dict, ts)

\* workflow_manager.py lines 168-178: the files beyond the keep_last most
\* recent ones are removed
LogsKept(n) == IF n > KeepLast THEN KeepLast ELSE n

\* an updater is called; it reads the file if it exists (json.load raises
\* on a file that holds no document)
ULoad(p, result) ==
    /\ uKind[p] \notin {"none", "cleanup"}
    /\ uPc[p] = "idle"
    /\ uArg' = [uArg EXCEPT ![p] = IF uKind[p] = "execution" THEN result
                                    ELSE NoMetaResult]
    /\ uRead' = [uRead EXCEPT ![p] = mdDisk]
    /\ IF mdDisk.state = "broken"
       THEN /\ uPc' = [uPc EXCEPT ![p] = "raised"]
            /\ UNCHANGED uView
       ELSE /\ uPc' = [uPc EXCEPT ![p] = "loaded"]
            /\ uView' = [uView EXCEPT ![p] =
                            IF mdDisk.state = "valid" THEN JsonLoad(mdDisk.doc)
                            ELSE EmptyDict]
    /\ UNCHANGED <<mdDisk, mdInitial, mdLogs, uKind, uOverlap, mdWrites, rpc,
                   mdLoaded>>
    /\ UNCHANGED nonMetaVars

\* the local dict gets the updater's keys and open(path, 'w') empties the file
UOpen(p) ==
    /\ uPc[p] = "loaded"
    /\ uView' = [uView EXCEPT ![p] =
                    UpdatedDict(uKind[p], uView[p], Stamp(p), uArg[p])]
    /\ mdDisk' = BrokenFile
    /\ uOverlap' = IF \E q \in Procs \ {p} : uPc[q] = "opened"
                   THEN [q \in Procs |-> TRUE]
                   ELSE uOverlap
    /\ uPc' = [uPc EXCEPT ![p] = "opened"]
    /\ UNCHANGED <<mdInitial, mdLogs, uKind, uArg, uRead, mdWrites, rpc,
                   mdLoaded>>
    /\ UNCHANGED nonMetaVars

\* json.dump writes the local dict; when two invocations had the file open
\* at once their writes land in the same bytes and the file may hold no
\* document afterwards
UDump(p, intact) ==
    /\ uPc[p] = "opened"
    /\ intact \/ uOverlap[p]
    /\ mdDisk' = IF intact THEN ValidFile(uView[p]) ELSE BrokenFile
    /\ mdWrites' = Append(mdWrites, p)
    /\ uPc' = [uPc EXCEPT ![p] = "done"]
    /\ UNCHANGED <<mdInitial, mdLogs, uKind, uArg, uRead, uView, uOverlap,
                   rpc, mdLoaded>>
    /\ UNCHANGED nonMetaVars

\* cleanup_old_logs
UCleanup(p) ==
    /\ uKind[p] = "cleanup"
    /\ uPc[p] = "idle"
    /\ mdLogs' = LogsKept(mdLogs)
    /\ uPc' = [uPc EXCEPT ![p] = "done"]
    /\ UNCHANGED <<mdDisk, mdInitial, uKind, uArg, uRead, uView, uOverlap,
                   mdWrites, rpc, mdLoaded>>
    /\ UNCHANGED nonMetaVars

Settled(p) == uKind[p] = "none" \/ uPc[p] \in {"done", "raised"}

\* metadata.json is loaded again once the invocations are over
Reload ==
    /\ rpc = "idle"
    /\ \A p \in Procs : Settled(p)
    /\ mdDisk.state = "valid"
    /\ mdLoaded' = JsonLoad(mdDisk.doc)
    /\ rpc' = "done"
    /\ UNCHANGED <<mdDisk, mdInitial, mdLogs, uKind, uPc, uArg, uRead, uView,
                   uOverlap, mdWrites>>
    /\ UNCHANGED nonMetaVars

\* no updater is running
MetaInit ==
    /\ mdDisk = NoFile
    /\ mdInitial = NoFile
    /\ mdLogs = 0
    /\ uKind = [p \in Procs |-> "none"]
    /\ uPc = [p \in Procs |-> "idle"]
    /\ uArg = [p \in Procs |-> NoMetaResult]
    /\ uRead = [p \in Procs |-> NoFile]
    /\ uView = [p \in Procs |-> EmptyDict]
    /\ uOverlap = [p \in Procs |-> FALSE]
    /\ mdWrites = <<>>
    /\ rpc = "idle"
    /\ mdLoaded = EmptyDict


(***************************************************************************)
(* execute_via_cli and the n8n process it runs (execute_workflow.py)       *)
(***************************************************************************)

\* the most lines the child writes to its standard output
MaxLines == 2

\* the chunks the standard error pipe holds before a write to it blocks
ErrCapacity == 1

\* the most chunks the child writes to its standard error
MaxErrChunks == ErrCapacity + 1

\* a write to a pipe returns when the pipe has room for it
PipeHasRoom(held) == held < ErrCapacity

NoCliResult == [present |-> FALSE, status |-> "absent", return_code |-> -1]

\* line 440: readline returns '' when the write end is closed and
\* everything written has been read; nothing else ends the loop
ReadlineEmpty_TimesOut(out, pipe) == pipe = 0

ReadlineEmpty(out, pipe) == out = "eof" /\ pipe = 0

\* lines 410-438: both log files are opened, the process is spawned with
\* its standard output and standard error piped; Popen raises when the
\* program cannot be started
CliSpawn(debug, spawned) ==
    /\ cPc = "idle"
    /\ cDebug' = debug
    /\ IF spawned
       THEN /\ cPc' = "reading"
            /\ cChild' = "running"
            /\ cOut' = "open"
       ELSE /\ cPc' = "raised"
            /\ UNCHANGED <<cChild, cOut>>
    /\ UNCHANGED <<cPipe, cWritten, cLogged, cErr, cErrWritten, cErrLogged, cRc, cResult>>
    /\ UNCHANGED nonCliVars

\* the child writes a line to its standard output
ChildWrite ==
    /\ cChild = "running"
    /\ cOut = "open"
    /\ cWritten < MaxLines
    /\ cWritten' = cWritten + 1
    /\ cPipe' = cPipe + 1
    /\ UNCHANGED <<cPc, cDebug, cChild, cOut, cLogged, cErr, cErrWritten, cErrLogged, cRc, cResult>>
    /\ UNCHANGED nonCliVars

\* the child calls write on its standard error
ChildBeginErr ==
    /\ cChild = "running"
    /\ cErrWritten < MaxErrChunks
    /\ cChild' = "errWrite"
    /\ UNCHANGED <<cPc, cDebug, cOut, cPipe, cWritten, cLogged, cErr,
                   cErrWritten, cErrLogged, cRc, cResult>>
    /\ UNCHANGED nonCliVars

\* the write returns once the pipe, which nobody reads before line 451, has
\* room for the chunk
ChildWriteErr ==
    /\ cChild = "errWrite"
    /\ PipeHasRoom(cErr)
    /\ cErr' = cErr + 1
    /\ cErrWritten' = cErrWritten + 1
    /\ cChild' = "running"
    /\ UNCHANGED <<cPc, cDebug, cOut, cPipe, cWritten, cLogged, cErrLogged,
                   cRc, cResult>>
    /\ UNCHANGED nonCliVars

\* the child closes its standard output and keeps running
ChildCloseOut ==
    /\ cChild = "running"
    /\ cOut = "open"
    /\ cOut' = "eof"
    /\ UNCHANGED <<cPc, cDebug, cChild, cPipe, cWritten, cLogged, cErr, cErrWritten, cErrLogged, cRc,
                   cResult>>
    /\ UNCHANGED nonCliVars

\* the child waits for input that never comes
ChildBlock ==
    /\ cChild = "running"
    /\ cChild' = "blocked"
    /\ UNCHANGED <<cPc, cDebug, cOut, cPipe, cWritten, cLogged, cErr, cErrWritten, cErrLogged, cRc,
                   cResult>>
    /\ UNCHANGED nonCliVars

\* the child exits, which closes its standard output
ChildExit(returncode) ==
    /\ cChild = "running"
    /\ cChild' = "exited"
    /\ cRc' = returncode
    /\ cOut' = "eof"
    /\ UNCHANGED <<cPc, cDebug, cPipe, cWritten, cLogged, cErr, cErrWritten, cErrLogged, cResult>>
    /\ UNCHANGED nonCliVars

\* lines 440-445: one line is read and copied into the execution log
CliReadLine ==
    /\ cPc = "reading"
    /\ cPipe > 0
    /\ cPipe' = cPipe - 1
    /\ cLogged' = cLogged + 1
    /\ UNCHANGED <<cPc, cDebug, cChild, cOut, cWritten, cErr, cErrWritten, cErrLogged, cRc, cResult>>
    /\ UNCHANGED nonCliVars

\* line 440: the loop ends
CliReadEof ==
    /\ cPc = "reading"
    /\ ReadlineEmpty(cOut, cPipe)
    /\ cPc' = "waiting"
    /\ UNCHANGED <<cDebug, cChild, cOut, cPipe, cWritten, cLogged, cErr, cErrWritten, cErrLogged, cRc,
                   cResult>>
    /\ UNCHANGED nonCliVars

\* line 448: process.wait() returns once the child has exited
CliWait ==
    /\ cPc = "waiting"
    /\ cChild = "exited"
    /\ cPc' = "stderr"
    /\ UNCHANGED <<cDebug, cChild, cOut, cPipe, cWritten, cLogged, cErr, cErrWritten, cErrLogged, cRc,
                   cResult>>
    /\ UNCHANGED nonCliVars

\* lines 450-460: the standard error is read and the result returned
CliReturn ==
    /\ cPc = "stderr"
    /\ cResult' = [present |-> TRUE, status |-> CliStatus(cRc),
                   return_code |-> cRc]
    /\ cPc' = "returned"
    /\ cErr' = 0
    /\ cErrLogged' = cErr
    /\ UNCHANGED <<cDebug, cChild, cOut, cPipe, cWritten, cLogged, cErrWritten,
                   cRc>>
    /\ UNCHANGED nonCliVars

\* execute_via_cli has not been called
CliInit ==
    /\ cPc = "idle"
    /\ cDebug = FALSE
    /\ cChild = "none"
    /\ cOut = "none"
    /\ cPipe = 0
    /\ cWritten = 0
    /\ cLogged = 0
    /\ cErr = 0
    /\ cErrWritten = 0
    /\ cErrLogged = 0
    /\ cRc = -1
    /\ cResult = NoCliResult


(***************************************************************************)
(* setup_workspace (workflow_manager.py)                                   *)
(***************************************************************************)

\* the most setup_workspace calls on the workspace
MaxSetupCalls == 3

\* the last tick of the wall clock
MaxTick == 3

\* the files setup_workspace is called with: two workflow definitions and a
\* file that is not JSON
Definitions == {"d1", "d2", "not json"}

Seconds == 0 .. (MaxTick \div 2)

\* line 82: strftime("%Y%m%d_%H%M%S") names the second the clock is in
BackupStamp(tick) == tick \div 2

NoVersions == [t \in Seconds |-> "none"]

\* line 117: the number of files in versions/
VersionFiles(versions) == Cardinality({t \in Seconds : versions[t] # "none"})

\* lines 80-85: an existing workflow.json is copied under the name of the
\* current second, over whatever file has that name
BackupMade(exists, workflow) == exists /\ workflow # "none"

\* lines 56-96 with update_metadata, lines 98-134: what the call does to
\* the workspace
SetupWorkspaceStep(jsonExists, definition) ==
    /\ wsCalls < MaxSetupCalls
    /\ wsCalls' = wsCalls + 1
    /\ IF ~jsonExists
       THEN /\ wsOutcome' = "raised"
            /\ UNCHANGED <<wsExists, wsWorkflow, wsVersions, wsReplaced,
                           wsBackedUp, wsWasNew, wsVersionCount>>
       ELSE LET made == BackupMade(wsExists, wsWorkflow)
                versions ==
                    IF made
                    THEN [wsVersions EXCEPT ![BackupStamp(wsTick)] = wsWorkflow]
                    ELSE wsVersions
            IN  /\ wsWasNew' = ~wsExists
                /\ wsExists' = TRUE
                /\ wsBackedUp' = made
                /\ wsVersions' = versions
                /\ wsReplaced' = IF wsWorkflow # "none"
                                 THEN wsReplaced \cup {wsWorkflow}
                                 ELSE wsReplaced
                /\ wsWorkflow' = definition
                /\ IF definition = "not json"
                   THEN /\ wsOutcome' = "raised"
                        /\ UNCHANGED wsVersionCount
                   ELSE /\ wsOutcome' = "returned"
                        /\ wsVersionCount' = VersionFiles(versions)
    /\ UNCHANGED wsTick

\* setup_workspace, called by the setup command
SetupWorkspace(jsonExists, definition) ==
    /\ SetupWorkspaceStep(jsonExists, definition)
    /\ UNCHANGED nonWsVars

\* half a second passes
Tick ==
    /\ wsTick < MaxTick
    /\ wsTick' = wsTick + 1
    /\ UNCHANGED <<wsExists, wsWorkflow, wsVersions, wsReplaced, wsCalls,
                   wsBackedUp, wsWasNew, wsVersionCount, wsOutcome>>
    /\ UNCHANGED nonWsVars

\* no workspace yet
WsInit ==
    /\ wsExists = FALSE
    /\ wsWorkflow = "none"
    /\ wsVersions = NoVersions
    /\ wsTick = 0
    /\ wsReplaced = {}
    /\ wsCalls = 0
    /\ wsBackedUp = FALSE
    /\ wsWasNew = FALSE
    /\ wsVersionCount = -1
    /\ wsOutcome = "none"


(***************************************************************************)
(* one iteration of the poll loop (execute_workflow.py lines 479-500)      *)
(***************************************************************************)

\* no poll request was made
NoPollAnswer ==
    [fails |-> FALSE, finished |-> FALSE, stopped |-> FALSE, error |-> FALSE]

\* line 487: if debug and i % 5 == 0
PeriodicLine(debug, i) == debug /\ i % 5 = 0

\* lines 480-500
PollIteration ==
    /\ pdPc = "request"
    /\ pdDecision' = PollDecision(pdAnswer)
    /\ pdLogged' = (~pdAnswer.fails /\ PeriodicLine(pdDebug, pdIndex))
    /\ pdPc' = "decided"
    /\ UNCHANGED <<pdAnswer, pdIndex, pdDebug>>
    /\ UNCHANGED nonPdVars

\* poll_execution_status is not running
PdInit ==
    /\ pdAnswer = NoPollAnswer
    /\ pdIndex = 0
    /\ pdDebug = FALSE
    /\ pdPc = "idle"
    /\ pdDecision = "none"
    /\ pdLogged = FALSE


(***************************************************************************)
(* WorkflowImporter.import_workflow (import_workflow.py)                   *)
(***************************************************************************)

\* workflow.json of the workspace: missing, a definition that was never
\* imported, or one exported from the engine, which carries its id
WorkflowFiles ==
    [exists : {TRUE}, keys : {{"name", "nodes", "connections"}},
     id : {"none"}, hasWebhooks : BOOLEAN]
    \cup
    [exists : {TRUE},
     keys : {{"name", "nodes", "connections", "id", "active", "updatedAt"}},
     id : {"wf-1"}, hasWebhooks : BOOLEAN]
    \cup
    [exists : {FALSE}, keys : {{}}, id : {"none"}, hasWebhooks : {FALSE}]

NoWorkflowFile ==
    [exists |-> FALSE, keys |-> {}, id |-> "none", hasWebhooks |-> FALSE]

\* lines 76-78
FieldsToRemove == {"id", "active", "createdAt", "updatedAt"}

\* lines 77-78: workflow_data.pop(field, None) for each field
CleanForApi(data) == [data EXCEPT !.keys = @ \ FieldsToRemove]

\* line 92: workflow_data.get('id')
IdOf(data) == IF "id" \in data.keys THEN data.id ELSE "none"

\* lines 95-108
ImportRequest(workflowId) ==
    IF workflowId # "none"
    THEN [op |-> "PUT workflow", id |-> workflowId]
    ELSE [op |-> "POST workflow", id |-> "none"]

\* how the engine answers the import request
ImportAnswers == {"ok", "http_error", "conn_error"}

\* how _set_workflow_active_state can go: the workflow is active already,
\* it is activated, one of its three requests fails, or the state read back
\* is not the one asked for
ActivationOutcomes == {"already_active", "activated", "get_failed",
                       "post_failed", "verify_failed", "not_changed"}

\* lines 270-338: the id is returned in the first two cases, every other
\* case raises Exception
ActivationReturns(outcome) == outcome \in {"already_active", "activated"}

\* the requests of _set_workflow_active_state
ActivationEvents(outcome, workflowId) ==
    LET get == [op |-> "GET workflow", id |-> workflowId]
        post == [op |-> "POST activate", id |-> workflowId]
    IN  IF outcome \in {"already_active", "get_failed"} THEN <<get>>
        ELSE IF outcome = "post_failed" THEN <<get, post>>
        ELSE <<get, post, get>>

\* the id the engine gives to a workflow it creates
NewId(engine) == IF "wf-2" \in engine THEN "wf-3" ELSE "wf-2"

\* lines 62-93: the file is read and cleaned
ImportCall(extract, activate) ==
    /\ iPc = "idle"
    /\ iExtract' = extract
    /\ iActivate' = activate
    /\ IF ~iFile.exists
       THEN /\ iOutcome' = "raised"
            /\ iPc' = "done"
            /\ UNCHANGED <<iData, iWorkflowId>>
       ELSE /\ iData' = CleanForApi(iFile)
            /\ iWorkflowId' = IdOf(CleanForApi(iFile))
            /\ iPc' = "request"
            /\ UNCHANGED iOutcome
    /\ UNCHANGED <<iFile, iEvents, iEngine, iMetaId, iWebhooksSaved, iLog,
                   iReturned, iAnswer, iActivation>>
    /\ UNCHANGED nonImpVars

\* lines 94-126 and 161-173: the request and its answer; on an answer that
\* is no success the failure is logged and raised
ImportSend(answer) ==
    /\ iPc = "request"
    /\ iAnswer' = answer
    /\ LET req == ImportRequest(iWorkflowId)
       IN  /\ iEvents' = Append(iEvents, req)
           /\ IF answer = "ok"
              THEN /\ iEngine' = IF req.op = "POST workflow"
                                 THEN iEngine \cup {NewId(iEngine)}
                                 ELSE iEngine
                   /\ iWorkflowId' = IF req.op = "POST workflow"
                                     THEN NewId(iEngine) ELSE iWorkflowId
                   /\ iWebhooksSaved' = (iExtract /\ iFile.hasWebhooks)
                   /\ iPc' = IF iActivate THEN "activate" ELSE "finish"
                   /\ UNCHANGED <<iLog, iOutcome>>
              ELSE /\ iLog' = "failed"
                   /\ iOutcome' = "raised"
                   /\ iPc' = "done"
                   /\ UNCHANGED <<iEngine, iWorkflowId, iWebhooksSaved>>
    /\ UNCHANGED <<iFile, iExtract, iActivate, iData, iMetaId, iReturned,
                   iActivation>>
    /\ UNCHANGED nonImpVars

\* lines 128-134 with 262-338: the exception of a failed activation is not
\* a RequestException and leaves import_workflow
ImportActivate(outcome) ==
    /\ iPc = "activate"
    /\ iActivation' = outcome
    /\ iEvents' = iEvents \o ActivationEvents(outcome, iWorkflowId)
    /\ IF ActivationReturns(outcome)
       THEN /\ iPc' = "finish"
            /\ UNCHANGED iOutcome
       ELSE /\ iOutcome' = "raised"
            /\ iPc' = "done"
    /\ UNCHANGED <<iFile, iExtract, iActivate, iData, iWorkflowId, iEngine,
                   iMetaId, iWebhooksSaved, iLog, iReturned, iAnswer>>
    /\ UNCHANGED nonImpVars

\* lines 136-159: metadata, log and return
ImportFinish ==
    /\ iPc = "finish"
    /\ iMetaId' = iWorkflowId
    /\ iLog' = "success"
    /\ iOutcome' = "returned"
    /\ iReturned' = iWorkflowId
    /\ iPc' = "done"
    /\ UNCHANGED <<iFile, iExtract, iActivate, iData, iWorkflowId, iEvents,
                   iEngine, iWebhooksSaved, iAnswer, iActivation>>
    /\ UNCHANGED nonImpVars

\* import_workflow has not been called
ImpInit ==
    /\ iPc = "idle"
    /\ iFile = NoWorkflowFile
    /\ iExtract = FALSE
    /\ iActivate = FALSE
    /\ iData = NoWorkflowFile
    /\ iWorkflowId = "none"
    /\ iEvents = <<>>
    /\ iEngine = {}
    /\ iMetaId = "none"
    /\ iWebhooksSaved = FALSE
    /\ iLog = "none"
    /\ iOutcome = "none"
    /\ iReturned = "none"
    /\ iAnswer = "none"
    /\ iActivation = "none"


\* main has not run
MainInit ==
    /\ ovDone = FALSE
    /\ ovBefore = <<>>


(***************************************************************************)
(* WorkflowManager.debug_cycle (workflow_manager.py)                       *)
(***************************************************************************)

\* the largest max_iterations debug_cycle is called with
MaxIterations == 3

\* the log files one run_workflow call leaves: the import log, and after an
\* import that succeeded the execution log and the error log
LogsOfRun(success) == IF success THEN 3 ELSE 1

\* lines 262-271: after a run the loop goes on, through the prompt, only
\* with auto_fix and an iteration left
ContinueAfterRun_RetryFailures(success, autoFix, iteration, max) ==
    ~success /\ iteration < max

ContinueAfterRun(success, autoFix, iteration, max) ==
    /\ ~(success /\ ~autoFix)
    /\ autoFix /\ iteration < max

dbgFrame == <<actVars, execVars, batchVars, extractVars, verifyVars,
              configVars, metaVars, cliVars, pdVars, impVars, mainVars>>

\* line 244: debug_cycle is entered
DebugCall(autoFix, maxIterations) ==
    /\ dPc = "idle"
    /\ dAutoFix' = autoFix
    /\ dMax' = maxIterations
    /\ dIteration' = 0
    /\ dPc' = "setup"
    /\ UNCHANGED <<dRuns, dLogs, dCleanups>>
    /\ UNCHANGED <<wsVars, dbgFrame>>

\* lines 248-250: setup_workspace; its exception leaves debug_cycle
DebugSetup(jsonExists, definition) ==
    /\ dPc = "setup"
    /\ SetupWorkspaceStep(jsonExists, definition)
    /\ dPc' = IF ~jsonExists \/ definition = "not json" THEN "raised"
              ELSE "loop"
    /\ UNCHANGED <<dAutoFix, dMax, dIteration, dRuns, dLogs, dCleanups>>
    /\ UNCHANGED dbgFrame

\* lines 252-254: the loop condition and iteration += 1
DebugLoop ==
    /\ dPc = "loop"
    /\ IF dIteration < dMax
       THEN /\ dIteration' = dIteration + 1
            /\ dPc' = "run"
       ELSE /\ dPc' = "cleanup"
            /\ UNCHANGED dIteration
    /\ UNCHANGED <<dAutoFix, dMax, dRuns, dLogs, dCleanups>>
    /\ UNCHANGED <<wsVars, dbgFrame>>

\* lines 257-271 up to the prompt: run_workflow and what follows from its
\* result
DebugRun(success) ==
    /\ dPc = "run"
    /\ dRuns' = Append(dRuns, success)
    /\ dLogs' = dLogs + LogsOfRun(success)
    /\ dPc' = IF ContinueAfterRun(success, dAutoFix, dIteration, dMax)
              THEN "prompt" ELSE "cleanup"
    /\ UNCHANGED <<dAutoFix, dMax, dIteration, dCleanups>>
    /\ UNCHANGED <<wsVars, dbgFrame>>

\* line 269: input() returns when a line is entered and raises EOFError at
\* the end of the standard input
DebugPrompt(entered) ==
    /\ dPc = "prompt"
    /\ dPc' = IF entered THEN "loop" ELSE "raised"
    /\ UNCHANGED <<dAutoFix, dMax, dIteration, dRuns, dLogs, dCleanups>>
    /\ UNCHANGED <<wsVars, dbgFrame>>

\* lines 273-275
DebugCleanup ==
    /\ dPc = "cleanup"
    /\ dCleanups' = dCleanups + 1
    /\ dLogs' = LogsKept(dLogs)
    /\ dPc' = "done"
    /\ UNCHANGED <<dAutoFix, dMax, dIteration, dRuns>>
    /\ UNCHANGED <<wsVars, dbgFrame>>

\* debug_cycle has not been called
DbgInit ==
    /\ dPc = "idle"
    /\ dAutoFix = FALSE
    /\ dMax = 0
    /\ dIteration = 0
    /\ dRuns = <<>>
    /\ dLogs = 0
    /\ dCleanups = 0


Init == ActInit /\ ExecInit /\ BatchInit /\ ExtractInit /\ VerifyInit
          /\ DbgInit
          /\ MainInit
          /\ ImpInit
          /\ PdInit
          /\ WsInit
          /\ CliInit
          /\ MetaInit
          /\ ConfigInit

\* the executor at rest on a workspace without metadata
InitActivate ==
    /\ Init
    /\ metadata = [exists |-> FALSE, webhooks |-> <<>>,
                   last_execution |-> NoLastExecution]

\* the activator at rest
InitExecute ==
    /\ Init
    /\ engineActive = [w \in WorkflowIds |-> FALSE]

\* The activation controller under repeated calls
NextActivate ==
    \/ \E id \in WorkflowIds, d \in BOOLEAN : ActCall(id, d)
    \/ \E r \in Responses : ActFetch(r)
    \/ \E r \in Responses, ap \in BOOLEAN : ActPost(r, ap)
    \/ \E r \in Responses : ActVerify(r)

SpecActivate == InitActivate /\ [][NextActivate]_vars

\* One call of batch_activate
NextBatch ==
    \/ \E ids \in BatchInputs, a \in BOOLEAN : BatchCall(ids, a)
    \/ BatchItem
    \/ \E r \in Responses : ActFetch(r)
    \/ \E r \in Responses, ap \in BOOLEAN : ActPost(r, ap)
    \/ \E r \in Responses : ActVerify(r)
    \/ BatchCollect
    \/ BatchReturn

SpecBatch == InitActivate /\ [][NextBatch]_vars

\* A workflow definition is drawn and one of the extractors is applied
InitExtract ==
    /\ ActInit
    /\ ExecInit
    /\ BatchInit
    /\ DbgInit
    /\ MainInit
    /\ ImpInit
    /\ PdInit
    /\ WsInit
    /\ CliInit
    /\ MetaInit
    /\ ConfigInit
    /\ VerifyInit
    /\ engineActive = [w \in WorkflowIds |-> FALSE]
    /\ metadata = [exists |-> FALSE, webhooks |-> <<>>,
                   last_execution |-> NoLastExecution]
    /\ wfForm \in {"dict", "str"}
    /\ wfNodes \in WorkflowInputs
    /\ epc = "idle"
    /\ exBy = "none"
    /\ exOutcome = "none"
    /\ exError = "none"
    /\ exWebhooks = <<>>
    /\ exStored = NoStoredConfig

NextExtract ==
    \/ \E save \in BOOLEAN : ManagerExtract(save)
    \/ \E save \in BOOLEAN : ImporterExtract(save)

SpecExtract == InitExtract /\ [][NextExtract]_vars

\* The probes' answers and the method are drawn and the function is applied
InitVerify ==
    /\ ActInit
    /\ ExecInit
    /\ BatchInit
    /\ DbgInit
    /\ MainInit
    /\ ImpInit
    /\ PdInit
    /\ WsInit
    /\ CliInit
    /\ MetaInit
    /\ ConfigInit
    /\ ExtractInit
    /\ engineActive = [w \in WorkflowIds |-> FALSE]
    /\ metadata = [exists |-> FALSE, webhooks |-> <<>>,
                   last_execution |-> NoLastExecution]
    /\ vpc = "idle"
    /\ vrProbe \in VerifyProbes
    /\ vrMethod \in VerifyMethods
    /\ vrEvents = <<>>
    /\ vrResult = NoVerifyResult

NextVerify == VerifyCall

SpecVerify == InitVerify /\ [][NextVerify]_vars

\* The files and the environment are drawn and an object is constructed
InitConfig ==
    /\ ActInit
    /\ ExecInit
    /\ BatchInit
    /\ DbgInit
    /\ MainInit
    /\ ImpInit
    /\ PdInit
    /\ WsInit
    /\ CliInit
    /\ MetaInit
    /\ ExtractInit
    /\ VerifyInit
    /\ engineActive = [w \in WorkflowIds |-> FALSE]
    /\ metadata = [exists |-> FALSE, webhooks |-> <<>>,
                   last_execution |-> NoLastExecution]
    /\ cfgArg \in ConfigArgs
    /\ cfgParent \in BOOLEAN
    /\ cfgFile \in ConfigFiles
    /\ envUrl \in EnvUrls
    /\ envKey \in EnvKeys
    /\ cpc = "idle"
    /\ cfgBy = "none"
    /\ cfgResolved = NoConfig

NextConfig ==
    \/ ExecutorConstruct
    \/ ActivatorConstruct

SpecConfig == InitConfig /\ [][NextConfig]_vars

\* One or two invocations update the metadata of one workspace
InitMeta ==
    /\ ActInit
    /\ ExecInit
    /\ BatchInit
    /\ DbgInit
    /\ MainInit
    /\ ImpInit
    /\ PdInit
    /\ WsInit
    /\ CliInit
    /\ ExtractInit
    /\ VerifyInit
    /\ ConfigInit
    /\ engineActive = [w \in WorkflowIds |-> FALSE]
    /\ metadata = [exists |-> FALSE, webhooks |-> <<>>,
                   last_execution |-> NoLastExecution]
    /\ mdDisk \in InitialFiles
    /\ mdInitial = mdDisk
    /\ mdLogs \in {0, KeepLast, KeepLast + 2}
    /\ uKind \in {k \in [Procs -> UpdaterKinds \cup {"none"}] : k[1] # "none"}
    /\ uPc = [p \in Procs |-> "idle"]
    /\ uArg = [p \in Procs |-> NoMetaResult]
    /\ uRead = [p \in Procs |-> NoFile]
    /\ uView = [p \in Procs |-> EmptyDict]
    /\ uOverlap = [p \in Procs |-> FALSE]
    /\ mdWrites = <<>>
    /\ rpc = "idle"
    /\ mdLoaded = EmptyDict

NextMeta ==
    \/ \E p \in Procs, r \in MetaResults : ULoad(p, r)
    \/ \E p \in Procs : UOpen(p)
    \/ \E p \in Procs, intact \in BOOLEAN : UDump(p, intact)
    \/ \E p \in Procs : UCleanup(p)
    \/ Reload

SpecMeta == InitMeta /\ [][NextMeta]_vars

\* One call of execute_workflow
NextExecute ==
    \/ \E m \in Methods, a \in BOOLEAN, t \in BOOLEAN : ExecCall(m, a, t)
    \/ \E r \in Responses, f \in BOOLEAN : PreCheck(r, f)
    \/ \E r \in Responses, f \in BOOLEAN : PreGet(r, f)
    \/ \E r \in Responses : PrePost(r)
    \/ \E r \in Responses, f \in BOOLEAN : PreVerify(r, f)
    \/ SelectAttempt
    \/ \E p \in Probes : WhVerify(p)
    \/ \E o \in WebhookOutcomes : WhSend(o)
    \/ \E r \in Responses : ApiPost(r)
    \/ \E r \in PollResponses : Poll(r)
    \/ \E r \in Responses, e \in BOOLEAN, l \in 0..1 : Detail(r, e, l)
    \/ \E d \in BOOLEAN, s \in BOOLEAN, c \in ExitCodes, e \in BOOLEAN,
          t \in 0..1 : Cli(d, s, c, e, t)
    \/ MainExit
    \/ \E url \in DirectUrls : MainOverride(url)

SpecExecute == InitExecute /\ [][NextExecute]_vars

(***************************************************************************)
(* Properties of the activation controller                                 *)
(***************************************************************************)

Posts(reqs) == Cardinality({i \in DOMAIN reqs : reqs[i].verb = "POST"})

IsPrefix(s, t) == Len(s) <= Len(t) /\ \A i \in DOMAIN s : s[i] = t[i]

\* The requests of a state-changing call, as the activation scenario lists them
ExpectedTriple ==
    <<Req("GET", "workflow", aId),
      Req("POST", IF aDesired THEN "activate" ELSE "deactivate", aId),
      Req("GET", "workflow", aId)>>

\* C1: a call whose fetched active flag already equals the desired state
\* issues no POST and returns changed = FALSE; and a call that directly
\* follows a call with the same id and desired state that returned a record
\* issues no POST and, when it returns, returns changed = FALSE, so that the
\* two calls together issue one POST when the first changed the state and
\* none otherwise.
C1_Idempotent ==
    /\ (aFetched.read /\ aFetched.state = aDesired) =>
          /\ Posts(aReqs) = 0
          /\ apc = "done"
          /\ aOutcome = "returned"
          /\ aResult.changed = FALSE
          /\ aResult.active = aDesired
    /\ (apc # "idle" /\ aPrev.outcome = "returned" /\ aPrev.id = aId
          /\ aPrev.desired = aDesired) =>
          /\ Posts(aReqs) = 0
          /\ (aOutcome = "returned" => aResult.changed = FALSE)
          /\ Posts(aPrev.reqs) + Posts(aReqs) = (IF aPrev.changed THEN 1 ELSE 0)

C1_Witness ==
    /\ apc = "done"
    /\ aPrev.outcome = "returned" /\ aPrev.changed
    /\ aPrev.id = aId /\ aPrev.desired /\ aDesired
    /\ aOutcome = "returned" /\ ~aResult.changed
    /\ Posts(aPrev.reqs) + Posts(aReqs) = 1

\* C2: when the fetched active flag differs from the desired state the call
\* issues GET workflow, POST activate-or-deactivate, GET workflow in this
\* order (all three when no request fails), and when the verifying GET shows
\* the desired state it returns {id, name, active = desired, changed = TRUE}.
C2_ThreeRequests ==
    (aFetched.read /\ aFetched.state # aDesired) =>
        /\ IsPrefix(aReqs, ExpectedTriple)
        /\ (apc = "done" /\ aError.kind # "transport") =>
              /\ aReqs = ExpectedTriple
              /\ (engineActive[aId] = aDesired) =>
                    /\ aOutcome = "returned"
                    /\ aResult = [id |-> aId, name |-> EngineName(aId),
                                  active |-> aDesired, changed |-> TRUE]

C2_Witness ==
    /\ apc = "done"
    /\ aId = "wf-42" /\ aDesired
    /\ aFetched.read /\ ~aFetched.state
    /\ aReqs = ExpectedTriple
    /\ aOutcome = "returned" /\ aResult.changed /\ aResult.active

\* C3: when the POST succeeded and the verifying GET reports a flag that
\* differs from the desired state, the call raises an error carrying the
\* observed state and returns no record; no returned record has
\* changed = TRUE with an active flag other than the desired one.
C3_VerifyMismatchRaises ==
    /\ (apc = "done" /\ Len(aReqs) = 3 /\ aError.kind # "transport"
          /\ engineActive[aId] # aDesired) =>
          /\ aOutcome = "raised"
          /\ aResult = NoResult
          /\ aError.kind = "state_mismatch"
          /\ aError.observed = engineActive[aId]
    /\ (aOutcome = "returned" /\ aResult.changed) => aResult.active = aDesired

C3_Witness ==
    /\ apc = "done"
    /\ Len(aReqs) = 3
    /\ aOutcome = "raised"
    /\ aError.kind = "state_mismatch"
    /\ aError.observed # aDesired

(***************************************************************************)
(* Properties of the execution orchestrator                                *)
(***************************************************************************)

Running == xpc # "idle"

Done == xpc \in {"done", "exited"}

\* the operations that belong to an execution method
MethodOfEvent(op) ==
    IF op \in {"OPTIONS webhook", "HEAD webhook", "GET webhook"} THEN "webhook"
    ELSE IF op \in {"POST execute", "GET execution"} THEN "api"
    ELSE IF op \in {"n8n execute", "n8n execute --log-level debug"} THEN "cli"
    ELSE "none"

CountEvents(op) == Cardinality({i \in DOMAIN xEvents : xEvents[i].op = op})

FailedBy(method, cause) ==
    \E i \in DOMAIN xFailed : xFailed[i] = Failure(method, cause)

MetadataHasUrl ==
    \E i \in DOMAIN metadata.webhooks :
        \/ metadata.webhooks[i].production_url # NoUrl
        \/ metadata.webhooks[i].test_url # NoUrl

\* C4: under an explicitly selected method (api, cli or webhook) only that
\* method is attempted, no request or process of another method is issued,
\* and a failure of the selected method is raised to the caller.
C4_ExplicitMethodOnly ==
    (Running /\ xMethod \in {"api", "cli", "webhook"}) =>
        /\ \A i \in DOMAIN xAttempts : xAttempts[i] = xMethod
        /\ \A i \in DOMAIN xEvents :
              MethodOfEvent(xEvents[i].op) \in {"none", xMethod}
        /\ (Done /\ xFailed # <<>>) =>
              (xOutcome = "raised" /\ xRaised.from = xMethod)

\* C5: under method auto the attempts are webhook (only with a URL in the
\* metadata), API, CLI in this order; an attempt is made only after every
\* earlier attempt raised; a raised attempt never ends the call while a
\* fallback remains; and when the CLI attempt raises, its error is raised to
\* the caller.
C5_AutoFallbackOrder ==
    (Running /\ xMethod = "auto") =>
        /\ xAttempts \in {<<>>, <<"webhook">>, <<"webhook", "api">>,
                          <<"webhook", "api", "cli">>, <<"api">>,
                          <<"api", "cli">>}
        /\ (\E i \in DOMAIN xAttempts : xAttempts[i] = "webhook")
              => MetadataHasUrl
        /\ Len(xFailed) >= Len(xAttempts) - 1
        /\ \A i \in DOMAIN xFailed : xFailed[i].method = xAttempts[i]
        /\ (xOutcome = "raised" /\ xRaised.from \in {"webhook", "api", "cli"})
              => xRaised.from = "cli"
        /\ Done => xAttempts # <<>>
        /\ (xAttempts # <<>> /\ ~MetadataHasUrl) => xAttempts[1] = "api"
        /\ (Done /\ xFailed # <<>> /\ Len(xFailed) = Len(xAttempts)) =>
              /\ xAttempts[Len(xAttempts)] = "cli"
              /\ xOutcome = "raised"
              /\ xRaised = [kind |-> "cli_error", from |-> "cli"]

C5_Witness ==
    /\ Done /\ xMethod = "auto"
    /\ xAttempts = <<"webhook", "api", "cli">>
    /\ Len(xFailed) = 3
    /\ xOutcome = "raised" /\ xRaised.from = "cli"

\* C6: when no poll reports a terminal state and no poll request fails,
\* execute under the API method returns a result with status timeout after
\* exactly 60 polls.
C6_PollExhaustionTimeout ==
    (Done /\ xMethod = "api" /\ xFailed = <<>> /\ firstFinishedAt = 0
        /\ firstErrorAt = 0 /\ firstRaiseAt = 0) =>
        /\ polls = 60
        /\ xOutcome = "returned"
        /\ xResult.present
        /\ xResult.status = "timeout"

\* C7: every call of execute_workflow, whatever the attempts and however it
\* ends, leaves last_execution of the metadata updated for this execution
\* and the result saved in a context file.
C7_RecordingUnconditional ==
    Done =>
        /\ metadata.exists
        /\ metadata.last_execution.timestamp = xTimestamp
        /\ metadata.last_execution.log_file = xTimestamp
        /\ xContext.present

\* C8: when the N-th poll is the first to report finished, and no earlier
\* poll failed or reported an error, the API attempt ends with status
\* success after exactly N polls and N - 1 sleeps of one second, and the
\* result's duration is at least N - 1 seconds.
C8_PollSuccessAfterN ==
    (xpc \in {"detail", "done"} /\ firstFinishedAt > 0
        /\ (firstErrorAt = 0 \/ firstErrorAt > firstFinishedAt)
        /\ (firstRaiseAt = 0 \/ firstRaiseAt > firstFinishedAt)) =>
        /\ pollStatus = "success"
        /\ firstFinishedAt <= 60
        /\ polls = firstFinishedAt
        /\ sleeps = firstFinishedAt - 1
        /\ Done =>
              /\ xOutcome = "returned"
              /\ xResult.status = "success"
              /\ xResult.duration >= firstFinishedAt - 1

C8_Witness ==
    /\ Done /\ xMethod = "api"
    /\ firstFinishedAt = 60 /\ polls = 60 /\ sleeps = 59
    /\ xOutcome = "returned" /\ xResult.status = "success"
    /\ xResult.duration = 59

\* C9: when a poll request fails, polling stops at once and the result of
\* the execution has status unknown; a result has status unknown only then,
\* and status timeout only when all 60 polls ended without a terminal state.
C9_PollFailureUnknown ==
    /\ (Done /\ firstRaiseAt > 0) =>
          /\ polls = firstRaiseAt
          /\ xOutcome = "returned"
          /\ xResult.present
          /\ xResult.status = "unknown"
    /\ (xResult.present /\ xResult.status = "unknown") => firstRaiseAt > 0
    /\ (xResult.present /\ xResult.status = "timeout") =>
          (polls = 60 /\ firstFinishedAt = 0 /\ firstErrorAt = 0)

ErrorRecords(results) ==
    {i \in DOMAIN results : "error" \in results[i].keys}

\* C11: batch activation enters the single-workflow operation for every
\* identifier of the input list in order and returns exactly one record per
\* identifier, in the order of the input, however many operations raise; the
\* records carrying an error are exactly those of the operations that
\* raised (so their number, and the failed count of the summary, equals the
\* number of raising operations), and every other record carries a boolean
\* changed.
C11_BatchOneRecordEach ==
    /\ bpc \in {"loop", "item"} => Len(bResults) = bIdx - 1
    /\ bpc = "item" => /\ aId = bIds[bIdx]
                       /\ aDesired = bActivate
                       /\ aCalls = bIdx
    /\ \A i \in DOMAIN bResults :
          /\ i \in DOMAIN bIds
          /\ bResults[i].id = bIds[i]
          /\ ("error" \in bResults[i].keys) <=> (i \in bRaised)
          /\ i \notin bRaised => /\ "changed" \in bResults[i].keys
                                 /\ bResults[i].changed \in BOOLEAN
    /\ bpc = "done" =>
          /\ Len(bResults) = Len(bIds)
          /\ aCalls = Len(bIds)
          /\ Cardinality(ErrorRecords(bResults)) = Cardinality(bRaised)
          /\ bSummary.failed = Cardinality(bRaised)

\* three identifiers, the second operation raised, the batch went on
C11_Witness ==
    /\ bpc = "done"
    /\ Len(bIds) = 3
    /\ bRaised = {2}
    /\ Len(bResults) = 3
    /\ bResults[3].changed
    /\ bSummary.failed = 1

(***************************************************************************)
(* Properties of the result record and of the command                      *)
(***************************************************************************)

\* the attempt that produced the returned result
LastAttempt == xAttempts[Len(xAttempts)]

\* C12: the result record execute_workflow returns carries a field naming
\* the method (webhook, api or cli) of the attempt that produced it.
C12_ResultNamesMethod ==
    (Done /\ xOutcome = "returned") =>
        /\ xAttempts # <<>>
        /\ \/ "method" \in xResult.keys
           \/ "execution_method" \in xResult.keys
        /\ xResult.execution_method = LastAttempt

PreStates == {"preCheck", "preGet", "prePost", "preVerify"}

\* C13: pre-activation is best effort.  With auto_activate set and a method
\* other than webhook the call starts by reading the active flag; only when
\* that reads inactive or cannot be read is an activation attempted (a
\* second GET, then possibly the POST); with the flag read active no
\* further activation request is made.  No outcome is produced and nothing
\* is raised while pre-activation runs, whatever fails in it, and an
\* execution attempt always follows.  With method webhook, or auto_activate
\* unset, no flag check and no activation request is made at all.
C13_PreActivationBestEffort ==
    /\ (Running /\ ~PreActivates(xAutoAct, xMethod)) =>
          /\ CountEvents("GET workflow") = 0
          /\ CountEvents("POST activate") = 0
          /\ xPreRead = "none"
    /\ (Running /\ xMethod = "webhook") =>
          /\ CountEvents("GET workflow") = 0
          /\ CountEvents("POST activate") = 0
    /\ (Running /\ xAutoAct /\ xMethod # "webhook" /\ xpc # "preCheck") =>
          /\ xPreRead # "none"
          /\ xEvents[1].op = "GET workflow"
    /\ xPreRead = "active" =>
          /\ CountEvents("GET workflow") = 1
          /\ CountEvents("POST activate") = 0
    /\ (xPreRead \in {"inactive", "unreadable"} /\ xpc # "preGet") =>
          CountEvents("GET workflow") >= 2
    /\ xpc \in PreStates =>
          /\ xOutcome = "none"
          /\ xRaised = NoRaise
          /\ xAttempts = <<>>
    /\ xRaised.from \in {"none", "webhook", "api", "cli", "record"}
    /\ (Running /\ xMethod # "webhook" /\ xpc \notin PreStates \cup {"select"}) =>
          xAttempts # <<>>

\* the flag could not be read, the activation request failed, and the API
\* attempt still ran and returned a successful result
C13_Witness ==
    /\ Done
    /\ xAutoAct
    /\ xMethod = "api"
    /\ xPreRead = "unreadable"
    /\ CountEvents("POST activate") = 1
    /\ CountEvents("GET workflow") = 2
    /\ xAttempts = <<"api">>
    /\ xOutcome = "returned"
    /\ xResult.status = "success"

\* C14: a webhook trigger request answered with a non-success HTTP status
\* makes execute_workflow return (not raise) a result with status error, a
\* null execution identifier, the HTTP status under response_status and an
\* error message holding the response body; no other attempt follows.
C14_WebhookHttpErrorResult ==
    (Done /\ whAnswer \in {"http_404", "http_500"}) =>
        /\ xOutcome = "returned"
        /\ xRaised = NoRaise
        /\ xResult.present
        /\ {"status", "execution_id", "response_status", "error"}
              \subseteq xResult.keys
        /\ xResult.status = "error"
        /\ xResult.execution_id = "None"
        /\ xResult.response_status = (IF whAnswer = "http_404" THEN 404 ELSE 500)
        /\ Len(xResult.error) = 3
        /\ xResult.error[2] = xResult.response_status
        /\ xResult.error[3] = ResponseText(whAnswer)
        /\ LastAttempt = "webhook"

\* a 404 answer under method auto: an error result, not a fallback
C14_Witness ==
    /\ Done
    /\ xMethod = "auto"
    /\ whAnswer = "http_404"
    /\ xOutcome = "returned"
    /\ xResult.status = "error"
    /\ xResult.response_status = 404
    /\ xAttempts = <<"webhook">>

\* C15: the exit code of the execute command is 0 exactly when
\* execute_workflow returned a result whose status is success; it is 1 for
\* any other returned status, for a missing result and for any exception.
C15_ExitCodeZeroIffSuccess ==
    /\ xpc # "exited" => exitCode = -1
    /\ xpc = "exited" =>
          /\ exitCode \in {0, 1}
          /\ exitCode = 0 <=> /\ xOutcome = "returned"
                              /\ xResult.present
                              /\ xResult.status = "success"
          /\ xOutcome = "raised" => exitCode # 0
          /\ ~xResult.present => exitCode # 0

\* the CLI process ended with a non-zero code: an error result, exit code 1
C15_Witness ==
    /\ xpc = "exited"
    /\ xOutcome = "returned"
    /\ xResult.status = "error"
    /\ LastAttempt = "cli"
    /\ exitCode = 1

CliEvents == CountEvents("n8n execute") + CountEvents("n8n execute --log-level debug")

\* C16: a CLI process that ran to its end yields a returned result, never
\* an exception, whose status is success for exit code 0 and error for
\* every other exit code; a process that could not be spawned makes
\* execute_workflow raise, with no further attempt and no second spawn.
C16_CliExitCodeMapping ==
    /\ (Done /\ CliEvents > 0 /\ ~FailedBy("cli", "spawn")) =>
          /\ xOutcome = "returned"
          /\ xRaised = NoRaise
          /\ xResult.present
          /\ xResult.execution_method = "cli"
          /\ {"status", "return_code"} \subseteq xResult.keys
          /\ xResult.return_code = 0 => xResult.status = "success"
          /\ xResult.return_code # 0 => xResult.status = "error"
    /\ FailedBy("cli", "spawn") =>
          /\ Done
          /\ xOutcome = "raised"
          /\ xRaised = [kind |-> "cli_error", from |-> "cli"]
          /\ LastAttempt = "cli"
          /\ CliEvents = 1
          /\ MethodOfEvent(xEvents[Len(xEvents)].op) = "cli"
    /\ CliEvents <= 1

\* the process ended with exit code 2: a returned result with status error
C16_Witness ==
    /\ Done
    /\ CliEvents = 1
    /\ xOutcome = "returned"
    /\ xResult.return_code = 2
    /\ xResult.status = "error"

(***************************************************************************)
(* Properties of the activation controller under transport failures        *)
(***************************************************************************)

StepOfRequest(i) == IF i = 1 THEN "fetch" ELSE IF i = 2 THEN "post" ELSE "verify"

\* C17: a request of the activation operation that fails (no response, or
\* an HTTP error response) ends the operation at that request by raising a
\* transport error, which carries the engine's error body exactly when the
\* failure came with a response; no result record is returned.  When the
\* failing request is the state-check GET, it is the only request sent: no
\* POST has gone to the engine.
C17_TransportFailureRaises ==
    /\ Len(aResps) = Len(aReqs)
    /\ \A i \in DOMAIN aResps :
          aResps[i] # "ok" =>
             /\ i = Len(aResps)
             /\ apc = "done"
             /\ aOutcome = "raised"
             /\ aResult = NoResult
             /\ aError.kind = "transport"
             /\ aError.step = StepOfRequest(i)
             /\ aError.hasBody <=> (aResps[i] = "http_error")
    /\ (aResps # <<>> /\ aResps[1] # "ok") =>
          /\ Len(aReqs) = 1
          /\ Posts(aReqs) = 0

\* the verifying GET was answered with an HTTP error after the POST passed
C17_Witness ==
    /\ apc = "done"
    /\ aResps = <<"ok", "ok", "http_error">>
    /\ aOutcome = "raised"
    /\ aError.hasBody
    /\ aError.step = "verify"

(***************************************************************************)
(* Properties of the webhook extractors                                    *)
(***************************************************************************)

\* the piece 'webhook' in any letter case
WebhookWords == {"webhook", "Webhook", "WEBHOOK"}

TypeNamesWebhook(node) == \E i \in DOMAIN node.type : node.type[i] \in WebhookWords

\* positions in the node list of the nodes whose type names a webhook
WebhookPositions == {i \in DOMAIN wfNodes : TypeNamesWebhook(wfNodes[i])}

\* the position in the node list of the k-th such node
RECURSIVE NthPosition(_, _)
NthPosition(k, from) ==
    IF TypeNamesWebhook(wfNodes[from])
    THEN IF k = 1 THEN from ELSE NthPosition(k - 1, from + 1)
    ELSE NthPosition(k, from + 1)

ExBase == IF exBy = "manager" THEN ManagerBaseUrl ELSE BaseUrl

\* path when it is non-empty, the webhook identifier otherwise
PathOrId(node) == IF node.path # <<>> THEN node.path ELSE <<node.webhookId>>

HasPathOrId(node) == node.path # <<>> \/ node.webhookId # ""

\* C18: for every webhook node with a non-empty path or a non-empty webhook
\* identifier the extractor returns an entry with production_url =
\* {base}/webhook/{X} and test_url = {base}/webhook-test/{X}, X being the
\* path when non-empty and the identifier otherwise; the two URLs have the
\* same parts except the one after the base, webhook against webhook-test.
C18_UrlsFromPathOrId ==
    (epc = "done" /\ wfForm = "dict") =>
        \A k \in 1..Cardinality(WebhookPositions) :
            LET node == wfNodes[NthPosition(k, 1)]
            IN  HasPathOrId(node) =>
                  /\ exOutcome = "returned"
                  /\ k \in DOMAIN exWebhooks
                  /\ {"production_url", "test_url"} \subseteq exWebhooks[k].keys
                  /\ exWebhooks[k].production_url
                        = <<ExBase, "webhook">> \o PathOrId(node)
                  /\ exWebhooks[k].test_url
                        = <<ExBase, "webhook-test">> \o PathOrId(node)
                  /\ Len(exWebhooks[k].test_url)
                        = Len(exWebhooks[k].production_url)
                  /\ \A j \in DOMAIN exWebhooks[k].test_url :
                        j # 2 => exWebhooks[k].test_url[j]
                                   = exWebhooks[k].production_url[j]

\* C19: the extractor returns exactly one entry per node whose type
\* contains 'webhook' in any letter case, in node order, and none for any
\* other node; a matching node with neither path nor webhook identifier
\* has its entry too, without production_url and test_url.
C19_OneEntryPerWebhookNode ==
    (epc = "done" /\ exBy = "manager") =>
        /\ exOutcome = "returned"
        /\ Len(exWebhooks) = Cardinality(WebhookPositions)
        /\ \A k \in DOMAIN exWebhooks :
              LET node == wfNodes[NthPosition(k, 1)]
              IN  /\ exWebhooks[k].path = node.path
                  /\ exWebhooks[k].webhook_id = node.webhookId
                  /\ ~HasPathOrId(node) =>
                        /\ "production_url" \notin exWebhooks[k].keys
                        /\ "test_url" \notin exWebhooks[k].keys

(***************************************************************************)
(* Properties of the registration check                                    *)
(***************************************************************************)

Unregistered(reason) == [registered |-> FALSE, reason |-> reason, allowed |-> <<>>]

BothNotFound == vrProbe.options = 404 /\ vrProbe.head = 404

AllowExcludes == vrProbe.allow # <<>> /\ vrMethod \notin {vrProbe.allow[i] : i \in DOMAIN vrProbe.allow}

\* C20 as stated: both probes answered 404 gives endpoint_not_found;
\* otherwise an Allow header that does not list the method gives
\* method_not_allowed with the allowed set; a connection failure gives
\* connection_error; every other case gives registered = true.
C20_VerifyDecision ==
    vpc = "done" =>
        IF vrProbe.exc = "connection"
        THEN vrResult = Unregistered("connection_error")
        ELSE IF vrProbe.exc = "none" /\ BothNotFound
        THEN vrResult = Unregistered("endpoint_not_found")
        ELSE IF vrProbe.exc = "none" /\ AllowExcludes
        THEN vrResult = [registered |-> FALSE, reason |-> "method_not_allowed",
                         allowed |-> vrProbe.allow]
        ELSE vrResult.registered

\* C20 amended: OPTIONS is sent first and HEAD after it unless OPTIONS
\* raised; a connection failure of either probe gives connection_error and
\* any other exception of a probe (a timeout) gives unregistered with the
\* exception's text as reason; with both probes answered, two 404 give
\* endpoint_not_found, otherwise an Allow header that does not list the
\* method gives method_not_allowed with the allowed set, and every
\* remaining case gives registered = true.
C20_VerifyDecisionWithExceptions ==
    vpc = "done" =>
        /\ vrEvents[1].op = "OPTIONS webhook"
        /\ Len(vrEvents) = (IF vrProbe.at = "options" THEN 1 ELSE 2)
        /\ Len(vrEvents) = 2 => vrEvents[2].op = "HEAD webhook"
        /\ IF vrProbe.exc = "connection"
           THEN vrResult = Unregistered("connection_error")
           ELSE IF vrProbe.exc = "timeout"
           THEN vrResult = Unregistered("exception")
           ELSE IF BothNotFound
           THEN vrResult = Unregistered("endpoint_not_found")
           ELSE IF AllowExcludes
           THEN vrResult = [registered |-> FALSE,
                            reason |-> "method_not_allowed",
                            allowed |-> vrProbe.allow]
           ELSE vrResult = [registered |-> TRUE, reason |-> "none",
                            allowed |-> <<>>]

\* the HEAD probe timed out after OPTIONS was answered: unregistered
C20_Witness ==
    /\ vpc = "done"
    /\ vrProbe.exc = "timeout"
    /\ vrProbe.at = "head"
    /\ Len(vrEvents) = 2
    /\ ~vrResult.registered
    /\ vrResult.reason = "exception"

(***************************************************************************)
(* Properties of the configuration                                         *)
(***************************************************************************)

FileAvailable == IF cfgArg = "none" THEN cfgParent ELSE cfgArg = "existing"

\* C21: the base URL and the API key of the requests come from the config
\* file, are overridden by N8N_API_URL and N8N_API_KEY when those are set,
\* and fall back to the built-in defaults when neither source gives a value.
C21_ConfigResolution ==
    cpc = "done" =>
        /\ cfgResolved.base_url =
              (IF envUrl # "unset" THEN envUrl
               ELSE IF FileAvailable THEN cfgFile.base_url
               ELSE "http://localhost:5678")
        /\ cfgResolved.api_key =
              (IF envKey # "unset" THEN envKey
               ELSE IF FileAvailable /\ cfgFile.api_key # "absent"
                    THEN cfgFile.api_key
               ELSE "")

\* execute_via_cli runs the n8n process, step by step
InitCli ==
    /\ Init
    /\ engineActive = [w \in WorkflowIds |-> FALSE]
    /\ metadata = [exists |-> FALSE, webhooks |-> <<>>,
                   last_execution |-> NoLastExecution]

NextCli ==
    \/ \E debug \in BOOLEAN, spawned \in BOOLEAN : CliSpawn(debug, spawned)
    \/ ChildWrite
    \/ ChildBeginErr
    \/ ChildWriteErr
    \/ ChildCloseOut
    \/ ChildBlock
    \/ \E returncode \in ExitCodes : ChildExit(returncode)
    \/ CliReadLine
    \/ CliReadEof
    \/ CliWait
    \/ CliReturn

SpecCli == InitCli /\ [][NextCli]_vars

\* both processes are scheduled: a step that stays possible is taken
FairSpecCli == SpecCli /\ WF_vars(NextCli)

\* C23: the CLI attempt has no read timeout: execute_via_cli leaves its read
\* loop only when the child's standard output is at its end and returns only
\* when the child has exited; while a blocked child keeps it in the loop or
\* in the wait, nothing at all can happen
C23_CliNoReadTimeout ==
    /\ cPc \in {"waiting", "stderr", "returned"} => cOut = "eof" /\ cPipe = 0
    /\ cPc \in {"stderr", "returned"} => cChild = "exited"
    /\ (/\ cChild = "blocked"
        /\ \/ cPc = "reading" /\ cOut = "open" /\ cPipe = 0
           \/ cPc = "waiting") => ~ENABLED NextCli

\* a child that wrote nothing blocks and execute_via_cli sits in its loop
C23_Witness ==
    /\ cChild = "blocked"
    /\ cWritten = 0
    /\ cOut = "open"
    /\ cPc = "reading"

\* setup_workspace is called again and again for one workflow
InitWorkspace ==
    /\ Init
    /\ engineActive = [w \in WorkflowIds |-> FALSE]
    /\ metadata = [exists |-> FALSE, webhooks |-> <<>>,
                   last_execution |-> NoLastExecution]

NextWorkspace ==
    \/ \E jsonExists \in BOOLEAN, definition \in Definitions :
          SetupWorkspace(jsonExists, definition)
    \/ Tick

SpecWorkspace == InitWorkspace /\ [][NextWorkspace]_vars

\* C25: setup_workspace on a workspace that holds a workflow.json saves the
\* existing definition in versions/ before it overwrites workflow.json, so
\* that every definition that was replaced is in versions/; on a new
\* workspace no backup is made
C25_ReplacedRecoverable ==
    /\ \A d \in wsReplaced : \E t \in Seconds : wsVersions[t] = d
    /\ (wsOutcome # "none" /\ wsWasNew) => ~wsBackedUp

\* One iteration of the poll loop, for every answer the request can meet
InitPoll ==
    /\ ActInit
    /\ ExecInit
    /\ BatchInit
    /\ DbgInit
    /\ MainInit
    /\ ImpInit
    /\ ExtractInit
    /\ VerifyInit
    /\ ConfigInit
    /\ MetaInit
    /\ CliInit
    /\ WsInit
    /\ engineActive = [w \in WorkflowIds |-> FALSE]
    /\ metadata = [exists |-> FALSE, webhooks |-> <<>>,
                   last_execution |-> NoLastExecution]
    /\ pdAnswer \in PollResponses
    /\ pdIndex \in 0 .. (MaxPolls - 1)
    /\ pdDebug \in BOOLEAN
    /\ pdPc = "request"
    /\ pdDecision = "none"
    /\ pdLogged = FALSE

NextPoll == PollIteration

SpecPoll == InitPoll /\ [][NextPoll]_vars

Answered == pdPc = "decided" /\ ~pdAnswer.fails

\* C26: a poll response is terminal exactly when it reports finished, or a
\* stop time together with an error field; the status is error whenever
\* stop time and error field are both there, finished or not, and success
\* when finished is reported without them; any other response continues
C26_PollTerminal ==
    Answered =>
        /\ pdDecision # "continue" <=>
              (pdAnswer.finished \/ (pdAnswer.stopped /\ pdAnswer.error))
        /\ (pdAnswer.stopped /\ pdAnswer.error) => pdDecision = "error"
        /\ (pdAnswer.finished /\ ~(pdAnswer.stopped /\ pdAnswer.error)) =>
              pdDecision = "success"
        /\ pdDecision \in {"error", "success", "continue"}

\* a response that reports finished, a stop time and an error was decided
C26_Witness ==
    /\ Answered
    /\ pdAnswer.finished /\ pdAnswer.stopped /\ pdAnswer.error
    /\ pdDecision = "error"

\* import_workflow is called on a workspace; a definition that carries an
\* id names a workflow of the engine
InitImport ==
    /\ ActInit
    /\ ExecInit
    /\ BatchInit
    /\ DbgInit
    /\ MainInit
    /\ ExtractInit
    /\ VerifyInit
    /\ ConfigInit
    /\ MetaInit
    /\ CliInit
    /\ WsInit
    /\ PdInit
    /\ engineActive = [w \in WorkflowIds |-> FALSE]
    /\ metadata = [exists |-> FALSE, webhooks |-> <<>>,
                   last_execution |-> NoLastExecution]
    /\ iPc = "idle"
    /\ iFile \in WorkflowFiles
    /\ iExtract = FALSE
    /\ iActivate = FALSE
    /\ iData = NoWorkflowFile
    /\ iWorkflowId = "none"
    /\ iEvents = <<>>
    /\ iEngine = IF iFile.id # "none" THEN {iFile.id} ELSE {}
    /\ iMetaId = iFile.id
    /\ iWebhooksSaved = FALSE
    /\ iLog = "none"
    /\ iOutcome = "none"
    /\ iReturned = "none"
    /\ iAnswer = "none"
    /\ iActivation = "none"

NextImport ==
    \/ \E extract \in BOOLEAN, activate \in BOOLEAN :
          ImportCall(extract, activate)
    \/ \E answer \in ImportAnswers : ImportSend(answer)
    \/ \E outcome \in ActivationOutcomes : ImportActivate(outcome)
    \/ ImportFinish

SpecImport == InitImport /\ [][NextImport]_vars

ImportRequests ==
    {i \in DOMAIN iEvents :
        iEvents[i].op \in {"PUT workflow", "POST workflow"}}

\* C31: import_workflow updates the existing workflow when workflow.json
\* carries an id (PUT to that id) and creates a workflow only when it
\* carries none (POST); importing a definition that has an id again does
\* not add a workflow to the engine
C31_UpdateWhenIdPresent ==
    /\ \A i \in ImportRequests :
          IF iFile.id # "none"
          THEN iEvents[i] = [op |-> "PUT workflow", id |-> iFile.id]
          ELSE iEvents[i].op = "POST workflow"
    /\ iFile.id # "none" => iEngine = {iFile.id}

ActivationFailed == iActivation \notin {"none", "already_active", "activated"}

\* C32: activation asked for during import is not fatal: when the workflow
\* was created and the activation step fails, import_workflow still updates
\* the import metadata, writes the import log and returns the workflow id
C32_ActivationFailureNotFatal ==
    (iPc = "done" /\ iAnswer = "ok" /\ ActivationFailed) =>
        /\ iOutcome = "returned"
        /\ iReturned = iWorkflowId
        /\ iMetaId = iWorkflowId
        /\ iLog = "success"

\* debug_cycle is called once
InitDebug ==
    /\ Init
    /\ engineActive = [w \in WorkflowIds |-> FALSE]
    /\ metadata = [exists |-> FALSE, webhooks |-> <<>>,
                   last_execution |-> NoLastExecution]

NextDebug ==
    \/ \E autoFix \in BOOLEAN, maxIterations \in 0..MaxIterations :
          DebugCall(autoFix, maxIterations)
    \/ \E jsonExists \in BOOLEAN, definition \in Definitions :
          DebugSetup(jsonExists, definition)
    \/ DebugLoop
    \/ \E success \in BOOLEAN : DebugRun(success)
    \/ \E entered \in BOOLEAN : DebugPrompt(entered)
    \/ DebugCleanup

SpecDebug == InitDebug /\ [][NextDebug]_vars

\* every step of debug_cycle is a call that comes back: the scripts it runs
\* end, and the prompt is answered or meets the end of the input
FairSpecDebug == SpecDebug /\ WF_vars(NextDebug)

DebugEnded == dPc \in {"done", "raised"}

RunCount == Len(dRuns)

\* no run follows a run that succeeded
StopsAfterSuccess == \A i \in DOMAIN dRuns : dRuns[i] => i = Len(dRuns)

OwnKeys(kind) ==
    IF kind = "execution" THEN {"last_execution"}
    ELSE IF kind = "webhook_utils" THEN {"webhook_config", "last_updated"}
    ELSE IF kind = "import_webhooks" THEN {"webhook_config"}
    ELSE IF kind = "import" THEN {"workflow_id", "last_import"}
    ELSE {}

\* the value a dict holds under a key, <<>> when the key is not in it
Field(dict, k) ==
    IF k \notin dict.keys THEN <<>>
    ELSE IF k = "workflow_name" THEN <<dict.workflow_name>>
    ELSE IF k = "workflow_id" THEN <<dict.workflow_id>>
    ELSE IF k = "last_import" THEN <<dict.last_import>>
    ELSE IF k = "webhook_config" THEN <<dict.webhook_config>>
    ELSE IF k = "last_updated" THEN <<dict.last_updated>>
    ELSE <<dict.last_execution>>

\* the dict a file gives to the one who reads it
ReadDict(file) ==
    IF file.state = "valid" THEN JsonLoad(file.doc) ELSE EmptyDict

AllSettled == \A p \in Procs : Settled(p)

LastWriter == mdWrites[Len(mdWrites)]

\* C22: metadata updates are read-modify-write without synchronisation and
\* without merge: once the invocations are over, a readable metadata.json
\* holds the view of the invocation that wrote last, that is, under every
\* key that writer does not own, exactly what that writer had read, whatever
\* another invocation wrote in between
C22_LastWriterWins ==
    (AllSettled /\ mdWrites # <<>> /\ mdDisk.state = "valid") =>
        /\ ReadDict(mdDisk).keys =
              ReadDict(uRead[LastWriter]).keys \cup OwnKeys(uKind[LastWriter])
        /\ \A k \in MetaKeys \ OwnKeys(uKind[LastWriter]) :
              Field(ReadDict(mdDisk), k) =
                  Field(ReadDict(uRead[LastWriter]), k)

\* two invocations, an execution and an import, both wrote, and the file
\* finally lacks what the first of them wrote
C22_Witness ==
    /\ AllSettled
    /\ Len(mdWrites) = 2
    /\ mdDisk.state = "valid"
    /\ {uKind[1], uKind[2]} = {"execution", "import"}
    /\ \E k \in OwnKeys(uKind[mdWrites[1]]) :
          Field(ReadDict(mdDisk), k) # Field(uView[mdWrites[1]], k)

\* the reader loaded a file that update_execution_metadata wrote last
ReloadedExecution ==
    /\ rpc = "done"
    /\ mdWrites # <<>>
    /\ uKind[LastWriter] = "execution"

Triggers == {i \in DOMAIN xEvents : xEvents[i].op = "GET webhook"}

\* the attempt runs in test mode: asked for, or after an unregistered report
UsesTest == xTestMode \/ whReported = "unregistered"

IsTestForm(url) == \E i \in 2..(Len(url) - 1) : url[i] = "webhook-test"

\* the URL with its webhook segments in test form
TestFormOf(url) ==
    [i \in DOMAIN url |->
        IF i > 1 /\ i < Len(url) /\ url[i] = "webhook" THEN "webhook-test"
        ELSE url[i]]

InErrLog(entries) == \E j \in DOMAIN errLog : errLog[j] \in entries

FailedAttempt(method) == \E i \in DOMAIN xFailed : xFailed[i].method = method

\* C28: every failure path appends its diagnostic to the error log of the
\* execution without discarding earlier entries: the entry of a failed
\* webhook or API attempt is still in the error log after a later fallback
\* attempt of the same execution has run
C28_ErrorLogKeepsEntries ==
    /\ FailedAttempt("webhook") => InErrLog({"timeout", "conn_error"})
    /\ FailedAttempt("api") => InErrLog({"api_error"})

\* an endpoint of the metadata with a URL
Usable(webhook) == webhook.production_url # NoUrl \/ webhook.test_url # NoUrl

HasUsableEndpoint ==
    /\ metadata.exists
    /\ \E i \in DOMAIN metadata.webhooks : Usable(metadata.webhooks[i])

\* the choice of the first attempt has been made
Selected == xpc \notin {"idle", "preCheck", "preGet", "prePost", "preVerify",
                        "select"}

Attempted(method) == \E i \in DOMAIN xAttempts : xAttempts[i] = method

\* C29: under method auto or webhook the webhook attempt is made if and only
\* if the metadata holds at least one endpoint with a usable URL; endpoints
\* without any URL do not keep a usable endpoint listed after them from
\* being used
C29_WebhookIffUsableEndpoint ==
    (Selected /\ xMethod \in {"auto", "webhook"}) =>
        (Attempted("webhook") <=> HasUsableEndpoint)

\* an updater ran alone, from its call to its return
RanAlone(p) ==
    /\ uPc[p] = "done"
    /\ \A q \in Procs \ {p} : uPc[q] = "idle"

\* C30: each metadata updater changes only its own keys of metadata.json and
\* leaves every other key as it was: update_execution_metadata only
\* last_execution, save_webhook_info only webhook_config (and last_updated
\* in webhook_utils), update_import_metadata only workflow_id and
\* last_import; cleanup_old_logs, like every other operation, deletes no key
\* and not the file, only log files beyond the most recent ones
C30_UpdatersKeepOtherKeys ==
    \A p \in Procs :
        RanAlone(p) =>
            /\ mdInitial.state = "valid" => mdDisk.state = "valid"
            /\ ReadDict(mdInitial).keys \subseteq ReadDict(mdDisk).keys
            /\ ReadDict(mdDisk).keys \ ReadDict(mdInitial).keys
                  \subseteq OwnKeys(uKind[p])
            /\ \A k \in MetaKeys \ OwnKeys(uKind[p]) :
                  Field(ReadDict(mdDisk), k) = Field(ReadDict(mdInitial), k)
            /\ uKind[p] = "cleanup" => mdDisk = mdInitial

\* update_execution_metadata ran alone on a file that held all the keys:
\* last_execution is new and webhook_config as before
C30_Witness ==
    /\ RanAlone(1)
    /\ uKind[1] = "execution"
    /\ mdInitial = ValidFile(UsedDict)
    /\ Field(ReadDict(mdDisk), "last_execution") #
          Field(ReadDict(mdInitial), "last_execution")
    /\ Field(ReadDict(mdDisk), "webhook_config") = <<"webhooks-old">>

\* C33: the --webhook-url override stores the URL in the metadata only for
\* the time of the command: after the command finishes, the webhook_config
\* of metadata.json is what it was before the command ran
C33_OverrideIsTemporary ==
    (xpc = "exited" /\ ovDone) => metadata.webhooks = ovBefore

\* C35: under method auto, when the webhook trigger receives an HTTP answer
\* that is no success, execute_workflow records and returns that result of
\* status error and attempts neither the API nor the CLI; the API follows
\* the webhook only when the webhook attempt raised
C35_NoFallbackOnHttpError ==
    /\ (Done /\ xMethod = "auto" /\ whAnswer \in {"http_404", "http_500"}) =>
          /\ xOutcome = "returned"
          /\ xResult.present
          /\ xResult.status = "error"
          /\ metadata.last_execution.status = "error"
          /\ xAttempts = <<"webhook">>
          /\ \A i \in DOMAIN xEvents :
                MethodOfEvent(xEvents[i].op) \notin {"api", "cli"}
    /\ (xMethod = "auto" /\ Attempted("webhook") /\ Len(xAttempts) > 1) =>
          whAnswer \in {"timeout", "conn_error"}

\* under auto the webhook answered 500 and the call returned
C35_Witness ==
    /\ Done
    /\ xMethod = "auto"
    /\ whAnswer = "http_500"
    /\ xResult.status = "error"
    /\ xAttempts = <<"webhook">>

\* the trigger requests of the call that reached the engine: the webhook GET
\* unless the connection failed, every API execute POST and every CLI process
StartsSent ==
    (IF whAnswer \in {"none", "conn_error"} THEN 0 ELSE CountEvents("GET webhook"))
    + CountEvents("POST execute") + CliEvents

\* C36: one execute_workflow call starts at most one execution of the
\* workflow on the engine: once a trigger request (webhook GET or API
\* execute POST) was sent, no later attempt of the call starts it again
C36_AtMostOneStart == StartsSent <= 1

\* the requests of the call that belong to an execution method
EventsOf(method) ==
    {i \in DOMAIN xEvents : MethodOfEvent(xEvents[i].op) = method}

RaisedForNoRecord ==
    xOutcome = "raised" /\ xRaised = [kind |-> "AttributeError", from |-> "record"]

\* the webhook method was requested and no URL was found to attempt it with
WebhookWithoutUrl == xMethod = "webhook" /\ ~Attempted("webhook")

\* the polling of the API attempt ended with neither success nor error
PollingGaveNoRecord == pollStatus \in {"timeout", "unknown"}

\* C37 as stated: execute_workflow never returns an absent result; when no
\* attempt produced a record (method webhook without a usable URL, or an API
\* attempt whose polling ended in timeout or unknown) the call raises, and
\* no request of any other method was issued by the call
C37_NoRecordRaisesAlone ==
    /\ (Done /\ xOutcome = "returned") =>
          (xResult.present /\ "status" \in xResult.keys)
    /\ (Done /\ WebhookWithoutUrl) =>
          /\ RaisedForNoRecord
          /\ EventsOf("api") = {} /\ EventsOf("cli") = {}
    /\ (Done /\ PollingGaveNoRecord) =>
          /\ RaisedForNoRecord
          /\ EventsOf("webhook") = {} /\ EventsOf("cli") = {}

\* C37: execute_workflow never returns an absent result: every normal return
\* is a record carrying a status; when no attempt produced a record (method
\* webhook without a URL to attempt, or an API attempt whose polling ended in
\* timeout or unknown) the call raises and no attempt follows: no API or CLI
\* request after the missing URL, no CLI process after the polling, while
\* under auto a webhook request may have preceded the API attempt
C37_NoRecordRaises ==
    /\ (Done /\ xOutcome = "returned") =>
          (xResult.present /\ "status" \in xResult.keys)
    /\ (Done /\ WebhookWithoutUrl) =>
          /\ RaisedForNoRecord
          /\ xEvents = <<>>
    /\ (Done /\ PollingGaveNoRecord) =>
          /\ RaisedForNoRecord
          /\ LastAttempt = "api"
          /\ EventsOf("cli") = {}
    /\ (Done /\ RaisedForNoRecord) => (WebhookWithoutUrl \/ PollingGaveNoRecord)

\* under auto the webhook request failed, the API polling ran out, and the
\* call raised for the missing record
C37_Witness ==
    /\ Done /\ xMethod = "auto"
    /\ xAttempts = <<"webhook", "api">>
    /\ pollStatus = "timeout"
    /\ RaisedForNoRecord

\* C38: a child that would exit on its own after writing a finite amount to
\* its standard output and standard error lets the CLI attempt complete and
\* return a result: unless the child itself waits for something that never
\* comes, execute_via_cli eventually returns, also with a standard error
\* pipe of bounded capacity
C38_CliCompletes ==
    <>(cChild = "blocked" \/ cPc \in {"returned", "raised"})

\* what each extractor makes of the definition of the state, with the base
\* URL of the extractor that ran
ByManager == ManagerExtractWebhookUrls(ExBase, wfForm, wfNodes)

ByImporter == ImporterExtractWebhookUrls(ExBase, wfForm, wfNodes)

\* C39 as stated: for every workflow definition and the same base URL the
\* two extractors return the same list of entries, and the webhook
\* configuration stored at import equals the one the extract command stores
C39_ExtractorsAndStoredConfigEqual ==
    (epc = "done" /\ wfForm = "dict") =>
        /\ ByManager = ByImporter
        /\ ByManager.outcome = "returned" =>
              ImporterStoredConfig(ByImporter.webhooks)
                 = ManagerStoredConfig(ByManager.webhooks)

\* C39: for every parsed workflow definition and the same base URL the two
\* extractors end alike, returning the same list of entries or raising the
\* same KeyError, and what ran returned just that; the configuration a
\* caller stores holds that list under webhooks, while the extract command
\* adds the workflow_file key the import leaves out
C39_ExtractorsAgree ==
    (epc = "done" /\ wfForm = "dict") =>
        /\ ByManager = ByImporter
        /\ exOutcome = ByManager.outcome
        /\ exError = ByImporter.error
        /\ exWebhooks = ByManager.webhooks
        /\ exWebhooks = ByImporter.webhooks
        /\ exStored.present =>
              /\ exStored.webhooks = ByManager.webhooks
              /\ exStored.webhooks = ByImporter.webhooks
              /\ exStored.keys \ {"workflow_file"} = {"webhooks", "extracted_at"}
              /\ "workflow_file" \in exStored.keys <=> exBy = "manager"

\* the importer returned two entries, one of them built from the webhook
\* identifier, and import_workflow stored them
C39_Witness ==
    /\ epc = "done" /\ exBy = "importer" /\ wfForm = "dict"
    /\ exOutcome = "returned"
    /\ Len(exWebhooks) = 2
    /\ \E k \in DOMAIN exWebhooks :
          exWebhooks[k].path = <<>> /\ exWebhooks[k].production_url # NoUrl
    /\ exStored.present

\* a setup_workspace call returned in this step
SetupReturned == wsCalls' = wsCalls + 1 /\ wsOutcome' = "returned"

\* C40: after a setup_workspace call version_count of the metadata equals
\* the number of backup files in versions/, and a call on a workspace that
\* already has a workflow.json adds exactly one backup file, overwriting no
\* earlier one, also when two calls fall within the same second
C40_OneBackupPerUpdate ==
    [][SetupReturned =>
          /\ wsVersionCount' = VersionFiles(wsVersions')
          /\ (wsExists /\ wsWorkflow # "none") =>
                VersionFiles(wsVersions') = VersionFiles(wsVersions) + 1]_vars

=============================================================================
